---- MODULE Spec2Model ----
(***************************************************************************)
(* Verification model of the Ghost platform core:                          *)
(*   - ingest-events edge function (per-device rate limiting)              *)
(*   - ghost-executor edge function (plan execution, self-healing)         *)
(*   - approve-ghost edge function (status machine, versioning)            *)
(*   - extension EventTransmitter (buffer, flush, retry, failed queue)     *)
(*   - extension service worker + PrivacyPipeline (sequence numbers)       *)
(*   - row-level-security policies of the two migrations                   *)
(*   - PrivacyPipeline.process (scrubbing, intent classification)          *)
(*   - dashboard Ghosts page (toggleActive, approveGhost)                  *)
(*   - pattern-detector edge function (clustering, confidence, upsert)     *)
(* Each subsystem has its own variables, Init and Next; a specification    *)
(* per subsystem leaves the other subsystems idle.                         *)
(***************************************************************************)
EXTENDS Integers, Sequences, FiniteSets, TLC

VARIABLES
    \* ---- ingest-events ----
    rateLimits,      \* Map deviceId -> {count, resetAt} (present = has entry)
    now,             \* Date.now() of the ingestion process, ms
    secureEvents,    \* rows of secure_events per device key (row count)
    windowAccepted,  \* history: events stored per key since its window began
    ingestResp,      \* last HTTP response of ingest-events
    ingestRequests,  \* number of requests handled (bounds the model)
    ingestReq,       \* the request last handled: what the body carried
    issuedTriggers,  \* pattern-detector fetches started by the request last handled
    pendingTriggers  \* pattern-detector fetches not yet settled

    ,
    \* ---- ghost-executor ----
    execPc,          \* position of the handler: idle, planning, executing, finalizing, done, crashed
    execPlan,        \* the plan returned by createExecutionPlan
    execIdx,         \* index of the next plan node of the for-loop
    steps,           \* the handler's steps array (StepResult records)
    overallStatus,   \* the handler's overallStatus
    execGhost,       \* what the load of the Ghost gave for the request last received
    plannerAnswer,   \* how createExecutionPlan got its plan for the running execution
    executions,      \* executions table: execution id -> row
    executionSteps,  \* execution_steps table: execution id -> rows in insertion order
    executionLogs,   \* execution_logs table: sequence of audit rows
    execResp,        \* last HTTP response of ghost-executor
    execId,          \* id of the execution being handled (0 before the first)
    \* ---- approve-ghost ----
    ghosts,          \* ghosts table: ghost id -> {status, isActive, version}
    ghostVersions,   \* ghost_versions table: set of rows {ghostId, version}
    approvalRequests,\* approval_requests table: request id -> {ghostId, status, resolved}
    apPc,            \* per handler: idle, update, version, resolve
    apReq,           \* per handler: the request {ghostId, action} and the row it read
    apResp,          \* per handler: last HTTP response
    approveOk,       \* history: per ghost, number of approve requests answered 200
    apRequests,      \* number of requests received (bounds the model)
    \* ---- dashboard Ghosts page ----
    dashGhosts,      \* the page's `ghosts` state: per ghost, listed and the is_active loaded
    dashActions,     \* number of button clicks handled (bounds the model)
    \* ---- pattern-detector ----
    detEvents,       \* secure_events rows of the org, newest ingested first
    detSequences,    \* what extractSequences returned for detEvents, once it was called
    detPatterns,     \* detected_patterns table: set of rows
    detResp,         \* last HTTP response of pattern-detector
    detHistory,      \* history: per answered run, the LLM answers and the table size after it
    nextUuid,        \* history: number of crypto.randomUUID() values drawn so far
    \* ---- row-level security ----
    rlsStmt,         \* the statement submitted: table, command, caller, rows
    rlsOutcome,      \* none, pending, allowed, denied
    \* ---- PrivacyPipeline.process as a function of the raw event ----
    encA,            \* first raw event of the pair under comparison
    encB,            \* second raw event: differs from encA in text fields only
    encOutA,         \* Secure Event returned for encA
    encOutB,         \* Secure Event returned for encB
    entityCounters,  \* PiiScrubber's module-level counters: type -> values seen
    encPc,           \* idle, first, second, done
    \* ---- PiiScrubber.scrub call by call ----
    scrubIn,         \* the text of the last scrub call
    scrubOut,        \* what it returned
    firstSeen,       \* history: per type, the normalized values in first-seen order since the reset
    scrubCalls,      \* history: scrub calls made
    \* ---- desktop EventTransmitter ----
    deskBuffer,      \* this.buffer: events by the number of the send() call that brought them
    deskFlights,     \* batches of the flush calls awaiting supabase.functions.invoke
    deskDelivered,   \* events of the batches whose invoke resolved
    deskNextId,      \* number of the next send() call
    flushInterval,   \* the 5 s interval is set
    deskFailures,    \* history: flushes whose invoke threw
    \* ---- extension EventTransmitter ----
    endpointSet,     \* config.endpoint is non-empty
    endpointUp,      \* environment: the endpoint now accepts every batch
    buffer,          \* this.buffer: sequence of events (ids in enqueue order)
    isFlushing,      \* this.isFlushing
    failedBatches,   \* this.failedBatches: sequence of batches
    eventsSentThisMinute,
    stats,           \* this.stats {totalSent, totalFailed, totalDropped, totalBatches}
    storedFailed,    \* chrome.storage.local ghost_failed_batches
    txPc,            \* the running flush: idle, sending (awaiting fetch / delay), persisting
    txBatch,         \* batch of the sendBatch call in progress
    txRetry,         \* retryCount of the sendBatch call in progress
    txPhase,         \* main = batch built by flush, retry = inside retryFailedBatches
    txRetryList,     \* retryFailedBatches: batches of the snapshot still to send
    acked,           \* history: events of batches answered 200/202
    nextId,          \* history: id of the next event enqueue accepts
    txPosts,         \* history: fetches made for the batch of the sendBatch chain in progress
    tx429,           \* history: how many of them were answered 429
    txAll5xx,        \* history: every one of them was answered with a 5xx status
    txLast,          \* history: how the last of them was answered ("" = none yet)
    txWait,          \* history: the last delay() of the chain: ms, and the Retry-After read
    activeFlushes,   \* history: flush() calls that passed the entry check and have not ended
    flushTimer,      \* the flush interval timer is set
    rateLimitResetTimer, \* the rate-limit reset interval timer is set
    shutPc,          \* shutdown(): none, flush (awaiting its flush), resume, persist (awaiting the store), done
    shutNextId,      \* history: nextId when shutdown() was called, 0 before
    initPc,          \* initialize(): fingerprint, getting, removing (awaited calls), done
    \* ---- extension service worker + PrivacyPipeline ----
    pipeline,        \* the service worker's `pipeline`: instance id, 0 = null
    pipelines,       \* PrivacyPipeline instances: id -> {deviceId, userId, sequenceCounter, resets}
    nPipelines,      \* number of instances constructed so far
    bucket,          \* floor(Date.now() / 900000) of the device clock
    inFlight,        \* process() calls suspended at the HMAC computation
    produced,        \* history: the Secure Events returned by process(), in order
    rawEvents        \* number of RAW_EVENT messages handled (bounds the model)

txHistory == <<txPosts, tx429, txAll5xx, txLast, txWait, activeFlushes>>
txTimers == <<flushTimer, rateLimitResetTimer>>
txShut == <<txTimers, shutPc, shutNextId, initPc>>

ingestVars == <<rateLimits, now, secureEvents, windowAccepted, ingestResp, ingestRequests,
                ingestReq, issuedTriggers, pendingTriggers>>
execVars == <<execPc, execPlan, execIdx, steps, overallStatus, execGhost, plannerAnswer, executions,
              executionSteps, executionLogs, execResp, execId>>

apVars == <<ghosts, ghostVersions, approvalRequests, apPc, apReq, apResp, approveOk, apRequests>>

txVars == <<endpointSet, endpointUp, buffer, isFlushing, failedBatches, eventsSentThisMinute,
            stats, storedFailed, txPc, txBatch, txRetry, txPhase, txRetryList, acked, nextId,
            txHistory, txShut>>

swVars == <<pipeline, pipelines, nPipelines, bucket, inFlight, produced, rawEvents>>

rlsVars == <<rlsStmt, rlsOutcome>>

dashVars == <<dashGhosts, dashActions>>

detVars == <<detEvents, detPatterns, detResp, detHistory, nextUuid, detSequences>>

encVars == <<encA, encB, encOutA, encOutB, entityCounters, encPc>>

scrubVars == <<scrubIn, scrubOut, firstSeen, scrubCalls>>

deskVars == <<deskBuffer, deskFlights, deskDelivered, deskNextId, flushInterval, deskFailures>>

vars == <<ingestVars, execVars, apVars, txVars, swVars, rlsVars, encVars, dashVars, detVars, scrubVars, deskVars>>

\* what each subsystem leaves alone
notIngest == <<execVars, apVars, txVars, swVars, rlsVars, encVars, dashVars, detVars, scrubVars, deskVars>>
notExec == <<ingestVars, apVars, txVars, swVars, rlsVars, encVars, dashVars, detVars, scrubVars, deskVars>>
notApprove == <<ingestVars, execVars, txVars, swVars, rlsVars, encVars, dashVars, detVars, scrubVars, deskVars>>
notTx == <<ingestVars, execVars, apVars, swVars, rlsVars, encVars, dashVars, detVars, scrubVars, deskVars>>
notSw == <<ingestVars, execVars, apVars, txVars, rlsVars, encVars, dashVars, detVars, scrubVars, deskVars>>
notRls == <<ingestVars, execVars, apVars, txVars, swVars, encVars, dashVars, detVars, scrubVars, deskVars>>
notEnc == <<ingestVars, execVars, apVars, txVars, swVars, rlsVars, dashVars, detVars, scrubVars, deskVars>>
notDash == <<ingestVars, execVars, txVars, swVars, rlsVars, encVars, detVars, scrubVars, deskVars>>
notDet == <<ingestVars, execVars, apVars, txVars, swVars, rlsVars, encVars, dashVars, scrubVars, deskVars>>
notScrub == <<ingestVars, execVars, apVars, txVars, swVars, rlsVars, dashVars, detVars, deskVars>>
notDesk == <<ingestVars, execVars, apVars, txVars, swVars, rlsVars, encVars, dashVars, detVars, scrubVars>>

(***************************************************************************)
(* ingest-events                                                           *)
(***************************************************************************)
MAX_BATCH_SIZE == 100
RATE_LIMIT_PER_MINUTE == 1000
RateWindowMs == 60000

\* bounds of the ingest model
MaxIngestRequests == 3
MaxNow == 60000
ClockStep == 30000

DeviceKeys == {"devA", "devB", "unknown"}
HeaderValues == {"", "devA"}          \* X-Ghost-Device header ("" = absent)
FingerprintValues == {"", "devB"}     \* batch.deviceFingerprint ("" = absent)
Methods == {"POST", "GET", "OPTIONS"}
\* batch.events: -2 = the body is not JSON or is the JSON value null (req.json()
\* or the read of batch.events throws), -1 = the body is an object whose
\* events is missing or not an array, otherwise the array length
EventsShapes == {-2, -1, 0, 1, MAX_BATCH_SIZE, MAX_BATCH_SIZE + 1}

\* the orgId of the events in order of appearance, up to repetition
EventOrgs == {<<"o1">>, <<"o2", "o2">>, <<"o1", "o2", "o1">>}

\* the orgId lists a body of the given shape can carry
EventOrgsOf(shape) ==
    IF shape <= 0 THEN {<<>>}
    ELSE IF shape = 1 THEN {<<"o1">>}
    ELSE IF shape > MAX_BATCH_SIZE THEN {<<"o1">>}
    ELSE EventOrgs

BatchId == "b1"

\* [...new Set(batch.events.map((e) => e.orgId))]
distinctOrgIdsMutant(orgs) == orgs

distinctOrgIds(orgs) ==
    LET first == {i \in 1..Len(orgs) : \A j \in 1..(i - 1) : orgs[j] # orgs[i]}
        nth(k) == CHOOSE i \in first : Cardinality({j \in first : j < i}) = k - 1
    IN  [k \in 1..Cardinality(first) |-> orgs[nth(k)]]

\* the body of the fetch of triggerPatternDetection
Trigger(orgId, batchId) == [orgId |-> orgId, batchId |-> batchId, trigger |-> "ingest"]

\* batch.events.length > MAX_BATCH_SIZE
tooLargeMutant(shape) == shape > MAX_BATCH_SIZE + 1

tooLarge(shape) == shape > MAX_BATCH_SIZE

IngestRequest(method, shape, orgs, insertOk) ==
    [method |-> method, shape |-> shape, orgs |-> orgs, insertOk |-> insertOk]

NoIngestRequest == IngestRequest("", 0, <<>>, FALSE)

NoEntry == [present |-> FALSE, count |-> 0, resetAt |-> 0]

\* req.headers.get('x-ghost-device') || batch.deviceFingerprint || 'unknown'
DeviceIdOf(hdr, fp) == IF hdr # "" THEN hdr ELSE IF fp # "" THEN fp ELSE "unknown"

\* checkRateLimit: the value returned
CheckRateLimit(rl, d, t) ==
    IF ~rl[d].present \/ t >= rl[d].resetAt THEN TRUE
    ELSE ~(rl[d].count >= RATE_LIMIT_PER_MINUTE)

\* checkRateLimit: the map after the call
RateLimitsAfter(rl, d, t) ==
    IF ~rl[d].present \/ t >= rl[d].resetAt
      THEN [rl EXCEPT ![d] = [present |-> TRUE, count |-> 1, resetAt |-> t + RateWindowMs]]
      ELSE IF rl[d].count >= RATE_LIMIT_PER_MINUTE
             THEN rl
             ELSE [rl EXCEPT ![d].count = @ + 1]

\* TRUE iff checkRateLimit opens a new window for d
OpensWindow(rl, d, t) == ~rl[d].present \/ t >= rl[d].resetAt

Response(status, code, retryAfter, accepted, device) ==
    [status |-> status, code |-> code, retryAfter |-> retryAfter,
     accepted |-> accepted, device |-> device]

NoResponse == Response(0, "", 0, 0, "")

\* A process that has served nothing yet, or one that has already accepted
\* RATE_LIMIT_PER_MINUTE - 2 single-event batches of devA in the window
\* opened at time 0.
IngestInit ==
    /\ now = 0
    /\ ingestResp = NoResponse
    /\ ingestRequests = 0
    /\ ingestReq = NoIngestRequest
    /\ issuedTriggers = <<>>
    /\ pendingTriggers = 0
    /\ \E warm \in BOOLEAN :
         IF warm
           THEN /\ rateLimits = [d \in DeviceKeys |->
                      IF d = "devA"
                        THEN [present |-> TRUE, count |-> RATE_LIMIT_PER_MINUTE - 2,
                              resetAt |-> RateWindowMs]
                        ELSE NoEntry]
                /\ secureEvents = [d \in DeviceKeys |->
                      IF d = "devA" THEN RATE_LIMIT_PER_MINUTE - 2 ELSE 0]
                /\ windowAccepted = secureEvents
           ELSE /\ rateLimits = [d \in DeviceKeys |-> NoEntry]
                /\ secureEvents = [d \in DeviceKeys |-> 0]
                /\ windowAccepted = secureEvents

IngestIdle ==
    /\ now = 0
    /\ ingestResp = NoResponse
    /\ ingestRequests = 0
    /\ ingestReq = NoIngestRequest
    /\ issuedTriggers = <<>>
    /\ pendingTriggers = 0
    /\ rateLimits = [d \in DeviceKeys |-> NoEntry]
    /\ secureEvents = [d \in DeviceKeys |-> 0]
    /\ windowAccepted = [d \in DeviceKeys |-> 0]

\* The serve handler of ingest-events, one request from start to response;
\* ingestReq keeps of the request what the handler has read on its path.
IngestServe(method, hdr, fp, shape, orgs, insertOk) ==
    /\ ingestRequests < MaxIngestRequests
    /\ ingestRequests' = ingestRequests + 1
    /\ UNCHANGED <<now, notIngest>>
    /\ IF method = "OPTIONS" THEN
          /\ ingestResp' = Response(200, "ok", 0, 0, "")
          /\ ingestReq' = IngestRequest(method, 0, <<>>, FALSE)
          /\ issuedTriggers' = <<>>
          /\ UNCHANGED <<rateLimits, secureEvents, windowAccepted, pendingTriggers>>
       ELSE IF method # "POST" THEN
          /\ ingestResp' = Response(405, "METHOD_NOT_ALLOWED", 0, 0, "")
          /\ ingestReq' = IngestRequest(method, 0, <<>>, FALSE)
          /\ issuedTriggers' = <<>>
          /\ UNCHANGED <<rateLimits, secureEvents, windowAccepted, pendingTriggers>>
       ELSE IF shape = -2 THEN
          /\ ingestResp' = Response(500, "INTERNAL_ERROR", 0, 0, "")
          /\ ingestReq' = IngestRequest(method, shape, <<>>, FALSE)
          /\ issuedTriggers' = <<>>
          /\ UNCHANGED <<rateLimits, secureEvents, windowAccepted, pendingTriggers>>
       ELSE IF shape = -1 THEN
          /\ ingestResp' = Response(400, "INVALID_BATCH", 0, 0, "")
          /\ ingestReq' = IngestRequest(method, shape, <<>>, FALSE)
          /\ issuedTriggers' = <<>>
          /\ UNCHANGED <<rateLimits, secureEvents, windowAccepted, pendingTriggers>>
       ELSE IF tooLarge(shape) THEN
          /\ ingestResp' = Response(400, "BATCH_TOO_LARGE", 0, 0, "")
          /\ ingestReq' = IngestRequest(method, shape, orgs, FALSE)
          /\ issuedTriggers' = <<>>
          /\ UNCHANGED <<rateLimits, secureEvents, windowAccepted, pendingTriggers>>
       ELSE LET d == DeviceIdOf(hdr, fp) IN
          /\ rateLimits' = RateLimitsAfter(rateLimits, d, now)
          /\ IF ~CheckRateLimit(rateLimits, d, now) THEN
                /\ ingestResp' = Response(429, "RATE_LIMIT_EXCEEDED", 60, 0, d)
                /\ ingestReq' = IngestRequest(method, shape, orgs, FALSE)
                /\ issuedTriggers' = <<>>
                /\ UNCHANGED <<secureEvents, windowAccepted, pendingTriggers>>
             ELSE IF ~insertOk THEN
                /\ ingestResp' = Response(500, "INSERT_FAILED", 0, 0, d)
                /\ ingestReq' = IngestRequest(method, shape, orgs, insertOk)
                /\ issuedTriggers' = <<>>
                /\ secureEvents' = secureEvents
                /\ windowAccepted' = [windowAccepted EXCEPT ![d] =
                        IF OpensWindow(rateLimits, d, now) THEN 0 ELSE @]
                /\ UNCHANGED pendingTriggers
             ELSE
                /\ ingestResp' = Response(202, "", 0, shape, d)
                /\ ingestReq' = IngestRequest(method, shape, orgs, insertOk)
                /\ secureEvents' = [secureEvents EXCEPT ![d] = @ + shape]
                /\ windowAccepted' = [windowAccepted EXCEPT ![d] =
                        (IF OpensWindow(rateLimits, d, now) THEN 0 ELSE @) + shape]
                /\ issuedTriggers' = [i \in 1..Len(distinctOrgIds(orgs)) |->
                                         Trigger(distinctOrgIds(orgs)[i], BatchId)]
                /\ pendingTriggers' = pendingTriggers + Len(distinctOrgIds(orgs))

\* A pattern-detector fetch settles, with a response or with an error that
\* the .catch of the handler logs.
IngestTriggerSettles(ok) ==
    /\ pendingTriggers > 0
    /\ pendingTriggers' = pendingTriggers - 1
    /\ UNCHANGED <<rateLimits, now, secureEvents, windowAccepted, ingestResp, ingestRequests,
                   ingestReq, issuedTriggers, notIngest>>

\* Wall-clock time passes between requests.
IngestClock ==
    /\ now < MaxNow
    /\ now' = now + ClockStep
    /\ UNCHANGED <<rateLimits, secureEvents, windowAccepted, ingestResp, ingestRequests,
                   ingestReq, issuedTriggers, pendingTriggers>>
    /\ UNCHANGED notIngest

IngestNext ==
    \/ \E method \in Methods \ {"POST"} : IngestServe(method, "", "", 0, <<>>, FALSE)
    \/ \E hdr \in HeaderValues, fp \in FingerprintValues, shape \in EventsShapes,
          insertOk \in BOOLEAN :
            \E orgs \in EventOrgsOf(shape) :
                IngestServe("POST", hdr, fp, shape, orgs, insertOk)
    \/ \E ok \in BOOLEAN : IngestTriggerSettles(ok)
    \/ IngestClock

\* C1: for every device key, the events accepted (stored, answered 202)
\* within one 60-second rate window never exceed RATE_LIMIT_PER_MINUTE, and a
\* request of a key that has already had RATE_LIMIT_PER_MINUTE events
\* accepted in the window is answered 429 with Retry-After 60.
C1_AtMost1000EventsPerWindow ==
    /\ \A d \in DeviceKeys : windowAccepted[d] <= RATE_LIMIT_PER_MINUTE
    /\ \A d \in DeviceKeys :
         (ingestResp.status = 202 /\ ingestResp.device = d /\ ingestResp.accepted > 0)
            => windowAccepted[d] - ingestResp.accepted < RATE_LIMIT_PER_MINUTE

\* C13: a POST whose events array has more than MAX_BATCH_SIZE entries is
\* answered 400 BATCH_TOO_LARGE, one whose events is missing or not an array
\* 400 INVALID_BATCH; such a request stores no row, starts no pattern
\* detection and leaves every rate counter as it was.
C13_OversizedBatchRejected ==
    [][(ingestRequests' = ingestRequests + 1 /\ ingestReq'.method = "POST") =>
         /\ ingestReq'.shape > MAX_BATCH_SIZE =>
               ingestResp' = Response(400, "BATCH_TOO_LARGE", 0, 0, "")
         /\ ingestReq'.shape = -1 =>
               ingestResp' = Response(400, "INVALID_BATCH", 0, 0, "")
         /\ (ingestReq'.shape > MAX_BATCH_SIZE \/ ingestReq'.shape = -1) =>
               /\ secureEvents' = secureEvents
               /\ rateLimits' = rateLimits
               /\ issuedTriggers' = <<>>
               /\ pendingTriggers' = pendingTriggers]_vars

\* an oversized batch was rejected by a process that holds a rate counter,
\* stored rows and an unsettled trigger
C13_Witness ==
    /\ ingestReq.shape > MAX_BATCH_SIZE
    /\ ingestResp.code = "BATCH_TOO_LARGE"
    /\ pendingTriggers > 0
    /\ \E d \in DeviceKeys : rateLimits[d].present /\ secureEvents[d] > 0

\* the set of orgIds in a list
OrgSet(orgs) == {orgs[i] : i \in 1..Len(orgs)}

\* C14: when the insert succeeds the answer is 202 with accepted = number
\* of events and exactly one trigger {orgId, batchId, trigger: "ingest"} is
\* issued per distinct orgId of the batch; when it fails the answer is 500
\* INSERT_FAILED and no trigger is issued; a trigger that settles, with
\* success or failure, or never settles changes neither answer nor store.
C14_TriggersNeverAffectAnswer ==
    [][/\ (/\ ingestRequests' = ingestRequests + 1
           /\ ingestReq'.method = "POST"
           /\ ingestReq'.shape \in 0..MAX_BATCH_SIZE
           /\ ingestResp'.code # "RATE_LIMIT_EXCEEDED") =>
             IF ingestReq'.insertOk
               THEN /\ ingestResp'.status = 202
                    /\ ingestResp'.accepted = ingestReq'.shape
                    /\ Len(issuedTriggers') = Cardinality(OrgSet(ingestReq'.orgs))
                    /\ \A o \in OrgSet(ingestReq'.orgs) :
                          \E i \in 1..Len(issuedTriggers') :
                              issuedTriggers'[i] = Trigger(o, BatchId)
                    /\ pendingTriggers' = pendingTriggers + Len(issuedTriggers')
               ELSE /\ ingestResp'.status = 500
                    /\ ingestResp'.code = "INSERT_FAILED"
                    /\ issuedTriggers' = <<>>
                    /\ pendingTriggers' = pendingTriggers
       /\ pendingTriggers' < pendingTriggers =>
             /\ ingestResp' = ingestResp
             /\ secureEvents' = secureEvents]_vars

\* a batch with a repeated orgId was answered 202, one of its two triggers
\* has settled and the other has not
C14_Witness ==
    /\ ingestResp.status = 202
    /\ ingestReq.orgs = <<"o1", "o2", "o1">>
    /\ Len(issuedTriggers) = 2
    /\ pendingTriggers = 1

(***************************************************************************)
(* ghost-executor                                                          *)
(***************************************************************************)
\* bounds of the executor model
MaxExecutions == 1
MaxPlanLen == 2

GhostStatuses == {"pending_approval", "approved", "active", "paused", "archived"}

\* A plan node as far as executeNode looks at it: the tool of node.action
\* ("none" = the node has no action) and whether running it throws (fetch
\* rejects for api_call, params is undefined for the other tools).
Node(tool, throws, reason) == [tool |-> tool, throws |-> throws, reason |-> reason]

PlanNodes ==
    {Node("api_call", FALSE, ""),
     Node("api_call", TRUE, ""),
     Node("click_element", FALSE, ""),
     Node("human_escalation", FALSE, "needs a human"),
     Node("bogus_tool", FALSE, ""),
     Node("none", FALSE, "")}

\* The substitute node built by attemptSelfHealing always has an action.
AltNodes == {n \in PlanNodes : n.tool # "none"}

\* What the repair LLM call yields: it throws, answers without content,
\* answers without a {...} object, answers with an unparseable object, or
\* answers with an alternative action.
HealAnswers ==
    {[kind |-> k, alt |-> Node("human_escalation", FALSE, "")] :
        k \in {"throw", "nocontent", "nomatch", "badjson"}}
    \cup {[kind |-> "alt", alt |-> n] : n \in AltNodes}

\* What the planner yields for a Ghost without a stored plan array.
PlannerAnswers == {"throw", "nocontent", "nomatch", "badjson", "plan"}

DefaultPlan ==
    <<Node("human_escalation", FALSE, "Could not generate execution plan automatically")>>

Plans == UNION {[1..n -> PlanNodes] : n \in 0..MaxPlanLen}

StepResult(nodeId, status, strategy) ==
    [nodeId |-> nodeId, status |-> status, strategy |-> strategy]

\* executeNode
executeNode(nodeId, node) ==
    IF node.tool = "none" THEN StepResult(nodeId, "skipped", "none")
    ELSE IF node.throws THEN StepResult(nodeId, "failed", "direct")
    ELSE IF node.tool = "api_call" THEN StepResult(nodeId, "completed", "api")
    ELSE IF node.tool \in {"navigate_to", "click_element", "input_text", "extract_data"}
      THEN StepResult(nodeId, "completed", "semantic")
    ELSE IF node.tool = "human_escalation" THEN StepResult(nodeId, "completed", "human")
    ELSE StepResult(nodeId, "completed", "unknown")

\* attemptSelfHealing: <<>> stands for null, otherwise <<altResult>>
attemptSelfHealing(nodeId, answer) ==
    IF answer.kind # "alt" THEN <<>>
    ELSE LET altResult == executeNode(nodeId + 100, answer.alt)
         IN  <<[altResult EXCEPT !.strategy = "self_healed:" \o altResult.strategy]>>

NoExecution == [status |-> "none", stepCount |-> 0, completed |-> FALSE]

ExecInit ==
    /\ execPc = "idle"
    /\ execPlan = <<>>
    /\ execIdx = 1
    /\ steps = <<>>
    /\ overallStatus = "completed"
    /\ execGhost = ""
    /\ plannerAnswer = ""
    /\ executions = [e \in 1..MaxExecutions |-> NoExecution]
    /\ executionSteps = [e \in 1..MaxExecutions |-> <<>>]
    /\ executionLogs = <<>>
    /\ execResp = [status |-> 0, code |-> "", execStatus |-> ""]
    /\ execId = 0

ExecIdle == ExecInit

\* ghost.status === 'approved' || ghost.status === 'active'
isRunnableMutant(status) == status \in {"approved", "active", "paused"}

isRunnable(status) == status \in {"approved", "active"}

\* serve handler up to and including the insert of the executions row.
\* ghost: "missing" = no ghostId in the body, "absent" = no such Ghost,
\* otherwise the status of the Ghost that was loaded; insertOk: whether the
\* insert of the executions row took effect (its error is not looked at).
ExecReceive(ghost, insertOk) ==
    /\ execPc \in {"idle", "done", "crashed"}
    /\ execGhost' = ghost
    /\ UNCHANGED notExec
    /\ IF ghost = "missing" THEN
          /\ execResp' = [status |-> 400, code |-> "MISSING_GHOST", execStatus |-> ""]
          /\ UNCHANGED <<execPc, execPlan, execIdx, steps, overallStatus, plannerAnswer,
                         executions, executionSteps, executionLogs, execId>>
       ELSE IF ghost = "absent" THEN
          /\ execResp' = [status |-> 404, code |-> "GHOST_NOT_FOUND", execStatus |-> ""]
          /\ UNCHANGED <<execPc, execPlan, execIdx, steps, overallStatus, plannerAnswer,
                         executions, executionSteps, executionLogs, execId>>
       ELSE IF ~isRunnable(ghost) THEN
          /\ execResp' = [status |-> 403, code |-> "GHOST_NOT_APPROVED", execStatus |-> ""]
          /\ UNCHANGED <<execPc, execPlan, execIdx, steps, overallStatus, plannerAnswer,
                         executions, executionSteps, executionLogs, execId>>
       ELSE
          /\ execId < MaxExecutions
          /\ execId' = execId + 1
          /\ executions' = IF insertOk
                             THEN [executions EXCEPT ![execId + 1] =
                                     [status |-> "running", stepCount |-> 0, completed |-> FALSE]]
                             ELSE executions
          /\ execPc' = "planning"
          /\ execPlan' = <<>>
          /\ execIdx' = 1
          /\ steps' = <<>>
          /\ overallStatus' = "completed"
          /\ plannerAnswer' = ""
          /\ UNCHANGED <<executionSteps, executionLogs, execResp>>

\* createExecutionPlan: stored selects the Ghost's stored plan array (<<>> when
\* execution_plan is not used), answer is what the planner LLM yields.
ExecPlanStep(hasStoredPlan, plan, answer) ==
    /\ execPc = "planning"
    /\ execIdx' = 1
    /\ plannerAnswer' = IF hasStoredPlan THEN "stored" ELSE answer
    /\ UNCHANGED notExec
    /\ UNCHANGED <<steps, overallStatus, execGhost, executions, executionSteps, executionLogs,
                   execId>>
    /\ IF hasStoredPlan THEN
          /\ execPlan' = plan
          /\ execPc' = "executing"
          /\ UNCHANGED execResp
       ELSE IF answer = "throw" THEN
          \* llm.complete rejects: the outer catch answers 500
          /\ execPlan' = <<>>
          /\ execPc' = "crashed"
          /\ execResp' = [status |-> 500, code |-> "EXECUTION_ERROR", execStatus |-> ""]
       ELSE IF answer = "plan" THEN
          /\ execPlan' = plan
          /\ execPc' = "executing"
          /\ UNCHANGED execResp
       ELSE
          /\ execPlan' = DefaultPlan
          /\ execPc' = "executing"
          /\ UNCHANGED execResp

\* overallStatus after one iteration: failed (and break) only when a failed
\* step got no substitute
OverallAfter(overall, stepResult, healResult) ==
    IF stepResult.status = "failed" /\ healResult = <<>> THEN "failed" ELSE overall

\* One iteration of the for-loop over the plan: executeNode, the insert into
\* execution_steps, and self-healing of a failed step.
ExecNodeStep(answer) ==
    /\ execPc = "executing"
    /\ execIdx <= Len(execPlan)
    /\ LET stepResult == executeNode(execIdx, execPlan[execIdx])
           healResult == attemptSelfHealing(execIdx, answer)
       IN  /\ executionSteps' = [executionSteps EXCEPT ![execId] = Append(@, stepResult)]
           /\ overallStatus' = OverallAfter(overallStatus, stepResult, healResult)
           /\ IF stepResult.status = "failed" THEN
                 IF healResult # <<>> THEN
                    /\ steps' = Append(steps, stepResult) \o healResult
                    /\ execIdx' = execIdx + 1
                 ELSE
                    /\ steps' = Append(steps, stepResult)
                    /\ execIdx' = Len(execPlan) + 1      \* break
              ELSE
                 /\ steps' = Append(steps, stepResult)
                 /\ execIdx' = execIdx + 1
    /\ UNCHANGED <<execPc, execPlan, execGhost, plannerAnswer, executions, executionLogs,
                   execResp, execId>>
    /\ UNCHANGED notExec

Strategies(ss) == {ss[i].strategy : i \in 1..Len(ss)}

\* After the loop: the update of the executions row, the audit row and the
\* 200 response; updateOk, logOk: whether the two writes took effect (their
\* errors are not looked at, and the update changes no row when the insert
\* of the executions row had failed).
ExecFinalize(updateOk, logOk) ==
    /\ execPc = "executing"
    /\ execIdx > Len(execPlan)
    /\ executions' = IF updateOk /\ executions[execId].status # "none"
                       THEN [executions EXCEPT ![execId] =
                               [status |-> overallStatus, stepCount |-> Len(steps),
                                completed |-> TRUE]]
                       ELSE executions
    /\ executionLogs' = IF logOk
                          THEN Append(executionLogs,
                                 [executionId |-> execId, status |-> overallStatus,
                                  steps |-> Len(steps), strategiesUsed |-> Strategies(steps)])
                          ELSE executionLogs
    /\ execResp' = [status |-> 200, code |-> "", execStatus |-> overallStatus]
    /\ execPc' = "done"
    \* the handler returns: its plan and loop index are gone
    /\ execPlan' = <<>>
    /\ execIdx' = 1
    /\ UNCHANGED <<steps, overallStatus, execGhost, plannerAnswer, executionSteps, execId>>
    /\ UNCHANGED notExec

\* the handler resumes after each await: planning, one loop iteration, the
\* final writes
ExecPlanning ==
    \E hasStoredPlan \in BOOLEAN, plan \in Plans, answer \in PlannerAnswers :
        ExecPlanStep(hasStoredPlan, plan, answer)

ExecRunNode == \E answer \in HealAnswers : ExecNodeStep(answer)

ExecFinish == \E updateOk, logOk \in BOOLEAN : ExecFinalize(updateOk, logOk)

ExecNext ==
    \/ \E ghost \in GhostStatuses \cup {"missing", "absent"}, insertOk \in BOOLEAN :
          ExecReceive(ghost, insertOk)
    \/ ExecPlanning
    \/ ExecRunNode
    \/ ExecFinish

AllStepsOk(ss) == \A i \in 1..Len(ss) : ss[i].status \in {"completed", "skipped"}

\* C2: a finalized execution has status completed iff every recorded
\* step, substitutes included, is completed or skipped.
C2_CompletedIffAllStepsOk ==
    (execPc = "done" /\ executions[execId].completed) =>
        (executions[execId].status = "completed" <=> AllStepsOk(steps))

\* number of audit rows written for execution e
AuditRows(e) ==
    Cardinality({i \in 1..Len(executionLogs) : executionLogs[i].executionId = e})

\* C15: every execution whose row was created with status running
\* eventually has a terminal status with completedAt set and exactly one
\* audit row, whatever fails afterwards.
C15_RunningEventuallyTerminal ==
    \A e \in 1..MaxExecutions :
        (executions[e].status = "running")
            ~> (/\ executions[e].status \in {"completed", "failed"}
                /\ executions[e].completed
                /\ AuditRows(e) = 1)

\* C39: a finalized execution has as many execution_steps rows as the
\* step_count of its executions row and the steps of its audit row say, the
\* rows are the attempted steps in order, and a substitute step counted in
\* step_count has a row whose strategy starts with self_healed:.
C39_StepRowsMatchStepCount ==
    (execPc = "done" /\ executions[execId].completed /\ AuditRows(execId) = 1) =>
        /\ Len(executionSteps[execId]) = executions[execId].stepCount
        /\ \A i \in 1..Len(executionLogs) :
              executionLogs[i].executionId = execId
                  => executionLogs[i].steps = Len(executionSteps[execId])
        /\ executionSteps[execId] = steps

\* TRUE iff entry i of ss is a failed step that self-healing did not make
\* good: a failed substitute, or a failed plan step with no substitute
HealingFailedAt(ss, i) ==
    /\ ss[i].status = "failed"
    /\ \/ ss[i].nodeId > 100
       \/ i = Len(ss)
       \/ ss[i + 1].nodeId # ss[i].nodeId + 100

\* C16: when a plan step fails and the repair call fails, returns nothing
\* parseable, or the substitute itself ends failed, the execution's status
\* is failed and no later plan node is executed.
C16_FailedHealingFailsExecution ==
    \A i \in 1..Len(steps) :
        HealingFailedAt(steps, i) => (i = Len(steps) /\ overallStatus = "failed")

PlanningFailures == {"throw", "nocontent", "nomatch", "badjson"}

\* C17: for a Ghost without a stored plan array, every failure of planning
\* yields the single-step plan that escalates to a human with reason
\* "Could not generate execution plan automatically", and the execution
\* proceeds with it.
C17_PlanningFailureEscalates ==
    [][(execPc = "planning" /\ execPc' # "planning" /\ plannerAnswer' \in PlanningFailures)
          => (execPlan' = DefaultPlan /\ execPc' = "executing")]_vars

\* C18: a request for a Ghost that is absent is answered 404
\* GHOST_NOT_FOUND, one for a Ghost whose status is not approved or active
\* 403 GHOST_NOT_APPROVED; neither creates an Execution row, calls the
\* planner, executes a node or changes the store.
C18_OnlyRunnableGhostsExecute ==
    [][(/\ execPc \in {"idle", "done", "crashed"}
        /\ execGhost' \in ({"absent"} \cup (GhostStatuses \ {"approved", "active"})))
          => /\ execResp' = IF execGhost' = "absent"
                              THEN [status |-> 404, code |-> "GHOST_NOT_FOUND", execStatus |-> ""]
                              ELSE [status |-> 403, code |-> "GHOST_NOT_APPROVED", execStatus |-> ""]
             /\ UNCHANGED <<execPc, execPlan, execIdx, steps, plannerAnswer, executions,
                            executionSteps, executionLogs, execId>>]_vars

\* a paused Ghost was refused by a service that has already run and logged
\* an execution
C18_Witness ==
    /\ execGhost = "paused"
    /\ execResp.status = 403
    /\ execId >= 1
    /\ executions[1].completed
    /\ Len(executionLogs) >= 1

(***************************************************************************)
(* approve-ghost                                                           *)
(***************************************************************************)
\* bounds of the approve model
MaxApproveRequests == 4
NumHandlers == 2

InitialVersion == 1

Handlers == 1..NumHandlers
GhostIds == {"g1"}
RequestGhostIds == GhostIds \cup {"", "g0"}     \* "" = missing, g0 = no such Ghost
ApproveActions == {"approve", "reject", "pause", "activate", "archive"}
RequestActions == ApproveActions \cup {"", "publish"}
RequestIds == {"r1", "r2"}

\* statusMap
statusMap(action) ==
    IF action = "approve" THEN "approved"
    ELSE IF action = "reject" THEN "archived"
    ELSE IF action = "pause" THEN "paused"
    ELSE IF action = "activate" THEN "active"
    ELSE "archived"

\* const isActive = action === 'approve' || action === 'activate'
isActiveAfterMutant(action) == action \in {"approve", "activate", "pause"}

isActiveAfter(action) == action = "approve" \/ action = "activate"

\* version: action === 'approve' ? ghost.version + 1 : ghost.version
versionAfter(action, version) == IF action = "approve" THEN version + 1 ELSE version

NoApReq == [ghostId |-> "", action |-> "", version |-> 0]
NoApResp == [status |-> 0, newStatus |-> "", version |-> 0]

\* A Ghost as the dashboard inserts it (status pending_approval, schema
\* defaults version 1 and is_active false) with one pending approval request
\* and one that expired before.
ApproveInit ==
    /\ ghosts = [g \in GhostIds |->
            [status |-> "pending_approval", isActive |-> FALSE, version |-> InitialVersion]]
    /\ ghostVersions = {}
    /\ approvalRequests = [r \in RequestIds |->
            [ghostId |-> "g1", status |-> IF r = "r1" THEN "pending" ELSE "expired",
             resolved |-> FALSE]]
    /\ apPc = [h \in Handlers |-> "idle"]
    /\ apReq = [h \in Handlers |-> NoApReq]
    /\ apResp = [h \in Handlers |-> NoApResp]
    /\ approveOk = [g \in GhostIds |-> 0]
    /\ apRequests = 0

ApproveIdle == ApproveInit

\* Handler h: parse and validate the request, read the Ghost.
ApproveReceive(h, gid, action) ==
    /\ apPc[h] = "idle"
    /\ apRequests < MaxApproveRequests
    /\ apRequests' = apRequests + 1
    /\ UNCHANGED <<ghosts, ghostVersions, approvalRequests, approveOk, notApprove>>
    /\ IF gid = "" \/ action = "" THEN
          /\ apResp' = [apResp EXCEPT ![h] = [status |-> 400, newStatus |-> "", version |-> 0]]
          /\ UNCHANGED <<apPc, apReq>>
       ELSE IF action \notin ApproveActions THEN
          /\ apResp' = [apResp EXCEPT ![h] = [status |-> 400, newStatus |-> "", version |-> 0]]
          /\ UNCHANGED <<apPc, apReq>>
       ELSE IF gid \notin GhostIds THEN
          /\ apResp' = [apResp EXCEPT ![h] = [status |-> 404, newStatus |-> "", version |-> 0]]
          /\ UNCHANGED <<apPc, apReq>>
       ELSE
          /\ apReq' = [apReq EXCEPT ![h] =
                [ghostId |-> gid, action |-> action, version |-> ghosts[gid].version]]
          /\ apPc' = [apPc EXCEPT ![h] = "update"]
          /\ apResp' = [apResp EXCEPT ![h] = NoApResp]

\* Handler h: the update of the ghosts row (ok = FALSE: the update errs).
ApproveUpdate(h, ok) ==
    /\ apPc[h] = "update"
    /\ UNCHANGED <<ghostVersions, approvalRequests, approveOk, apRequests, apReq, notApprove>>
    /\ IF ok THEN
          /\ ghosts' = [ghosts EXCEPT ![apReq[h].ghostId] =
                [status |-> statusMap(apReq[h].action),
                 isActive |-> isActiveAfter(apReq[h].action),
                 version |-> versionAfter(apReq[h].action, apReq[h].version)]]
          /\ apPc' = [apPc EXCEPT ![h] =
                IF apReq[h].action = "approve" THEN "version" ELSE "resolve"]
          /\ UNCHANGED apResp
       ELSE
          /\ apResp' = [apResp EXCEPT ![h] = [status |-> 500, newStatus |-> "", version |-> 0]]
          /\ apPc' = [apPc EXCEPT ![h] = "idle"]
          /\ UNCHANGED ghosts

\* Handler h: the insert into ghost_versions; a row that violates
\* UNIQUE(ghost_id, version) is refused and the error is not looked at.
ApproveInsertVersion(h) ==
    /\ apPc[h] = "version"
    /\ ghostVersions' = ghostVersions \cup
            {[ghostId |-> apReq[h].ghostId, version |-> apReq[h].version + 1]}
    /\ apPc' = [apPc EXCEPT ![h] = "resolve"]
    /\ UNCHANGED <<ghosts, approvalRequests, approveOk, apRequests, apReq, apResp, notApprove>>

\* .eq('ghost_id', ghost_id).eq('status', 'pending')
isPendingOfMutant(request, gid) == request.ghostId = gid

isPendingOf(request, gid) == request.ghostId = gid /\ request.status = "pending"

\* status: action === 'approve' ? 'approved' : 'rejected'
resolvedStatus(action) == IF action = "approve" THEN "approved" ELSE "rejected"

\* Handler h: the update of the pending approval requests and the 200 answer.
ApproveResolve(h) ==
    /\ apPc[h] = "resolve"
    /\ approvalRequests' = [r \in RequestIds |->
            IF isPendingOf(approvalRequests[r], apReq[h].ghostId)
              THEN [approvalRequests[r] EXCEPT
                      !.status = resolvedStatus(apReq[h].action),
                      !.resolved = TRUE]
              ELSE approvalRequests[r]]
    /\ apResp' = [apResp EXCEPT ![h] =
            [status |-> 200, newStatus |-> statusMap(apReq[h].action),
             version |-> versionAfter(apReq[h].action, apReq[h].version)]]
    /\ approveOk' = [approveOk EXCEPT ![apReq[h].ghostId] =
            IF apReq[h].action = "approve" THEN @ + 1 ELSE @]
    /\ apPc' = [apPc EXCEPT ![h] = "idle"]
    /\ UNCHANGED <<ghosts, ghostVersions, apRequests, apReq, notApprove>>

ApproveNext ==
    \/ \E h \in Handlers, gid \in RequestGhostIds, action \in RequestActions :
          ApproveReceive(h, gid, action)
    \/ \E h \in Handlers, ok \in BOOLEAN : ApproveUpdate(h, ok)
    \/ \E h \in Handlers : ApproveInsertVersion(h)
    \/ \E h \in Handlers : ApproveResolve(h)

\* C3: a Ghost's status changes only along the edges of the approve state
\* machine: to approved only from pending_approval, to paused only from
\* approved or active, to active only from paused or approved (never from
\* pending_approval or archived), to archived from any status.
C3_StatusFollowsStateMachine ==
    [][\A g \in GhostIds :
         ghosts'[g].status # ghosts[g].status =>
            \/ ghosts'[g].status = "archived"
            \/ ghosts'[g].status = "approved" /\ ghosts[g].status = "pending_approval"
            \/ ghosts'[g].status = "paused" /\ ghosts[g].status \in {"approved", "active"}
            \/ ghosts'[g].status = "active" /\ ghosts[g].status \in {"paused", "approved"}]_vars

\* C4: whenever no approve-ghost request is in progress, a Ghost's version
\* is its starting version plus the number of approve requests answered
\* 200, and ghost_versions holds exactly one row for each of those versions.
C4_VersionCountsApprovals ==
    (\A h \in Handlers : apPc[h] = "idle") =>
        \A g \in GhostIds :
            /\ ghosts[g].version = InitialVersion + approveOk[g]
            /\ ghostVersions =
                 {[ghostId |-> g, version |-> v] : v \in (InitialVersion + 1)..ghosts[g].version}

\* C19: an approve request on a Ghost whose status is already approved
\* (and whose row has not changed since the handler read it) leaves status,
\* is_active and version unchanged and adds no version row.
C19_ReapproveChangesNothing ==
    [][\A h \in Handlers :
         (/\ apPc[h] = "update"
          /\ apPc'[h] \notin {"update", "idle"}
          /\ apReq[h].action = "approve"
          /\ ghosts[apReq[h].ghostId].status = "approved"
          /\ ghosts[apReq[h].ghostId].version = apReq[h].version)
            => (ghosts' = ghosts /\ apPc'[h] # "version")]_vars

C40_OnlyRejectRejects ==
    [][\A h \in Handlers :
          (apPc[h] = "resolve" /\ apPc'[h] = "idle") =>
              /\ apReq[h].action \in {"pause", "activate", "archive"}
                    => approvalRequests' = approvalRequests
              /\ \A r \in RequestIds :
                    (approvalRequests[r].status = "pending"
                       /\ approvalRequests'[r].status = "rejected")
                      => apReq[h].action = "reject"]_vars

(***************************************************************************)
(* dashboard Ghosts page                                                   *)
(***************************************************************************)
\* bound of the dashboard model
MaxDashActions == 3

DashInit ==
    /\ dashGhosts = [g \in GhostIds |-> [listed |-> FALSE, isActive |-> FALSE]]
    /\ dashActions = 0

DashIdle == DashInit

\* loadGhosts: setGhosts(data) with the rows of the ghosts table
loadGhosts(table) == [g \in GhostIds |-> [listed |-> TRUE, isActive |-> table[g].isActive]]

\* the page mounts, or is reloaded
DashLoadGhosts ==
    /\ dashGhosts # loadGhosts(ghosts)
    /\ dashGhosts' = loadGhosts(ghosts)
    /\ UNCHANGED <<dashActions, apVars, notDash>>

\* toggleActive(ghost) with the row the page shows; ok = FALSE: the update
\* errs, which is not looked at
toggleActive(table, g, ghost, ok) ==
    IF ok
      THEN [table EXCEPT ![g].isActive = ~ghost.isActive,
                         ![g].status = IF ghost.isActive THEN "paused" ELSE "active"]
      ELSE table

DashToggleActive(g, ok) ==
    /\ dashActions < MaxDashActions
    /\ dashGhosts[g].listed
    /\ dashActions' = dashActions + 1
    /\ ghosts' = toggleActive(ghosts, g, dashGhosts[g], ok)
    /\ dashGhosts' = loadGhosts(ghosts')
    /\ UNCHANGED <<ghostVersions, approvalRequests, apPc, apReq, apResp, approveOk, apRequests>>
    /\ UNCHANGED notDash

\* approveGhost(id)
approveGhost(table, g, ok) == IF ok THEN [table EXCEPT ![g].status = "approved"] ELSE table

DashApproveGhost(g, ok) ==
    /\ dashActions < MaxDashActions
    /\ dashGhosts[g].listed
    /\ dashActions' = dashActions + 1
    /\ ghosts' = approveGhost(ghosts, g, ok)
    /\ dashGhosts' = loadGhosts(ghosts')
    /\ UNCHANGED <<ghostVersions, approvalRequests, apPc, apReq, apResp, approveOk, apRequests>>
    /\ UNCHANGED notDash

DashNext ==
    \/ DashLoadGhosts
    \/ \E g \in GhostIds, ok \in BOOLEAN : DashToggleActive(g, ok)
    \/ \E g \in GhostIds, ok \in BOOLEAN : DashApproveGhost(g, ok)

GovernNext == ApproveNext \/ DashNext

\* C20: under approve-ghost requests and the dashboard's toggleActive and
\* approveGhost, on Ghosts created with is_active false, a Ghost with
\* is_active true has status approved or active.
C20_ActiveImpliesApprovedOrActive ==
    \A g \in GhostIds : ghosts[g].isActive => ghosts[g].status \in {"approved", "active"}

\* after two clicks on the dashboard and an activate request answered 200,
\* a Ghost that was never approved through approve-ghost is active
C20_Witness ==
    /\ dashActions >= 2
    /\ \E g \in GhostIds :
          /\ ghosts[g].isActive
          /\ ghosts[g].status = "active"
          /\ ghosts[g].version = InitialVersion
          /\ \E h \in Handlers : apResp[h].status = 200 /\ apResp[h].newStatus = "active"

(***************************************************************************)
(* extension EventTransmitter                                              *)
(***************************************************************************)
\* bounds of the transmitter model; maxBatchSize is a configuration value
MaxEvents == 4
maxBatchSize == 2

maxRetries == 3
retryBaseMs == 1000
\* how many events enqueue drops at most (bounds the model)
MaxDropped == 2
\* how many 429 answers one batch gets at most (bounds the model)
Max429 == 2
\* Retry-After of a 429 answer, in seconds; -1 = the header is absent
RetryAfterHeaders == {-1, 30}
EnqueueRateLimit == 1000
PersistCap == 10

\* what one fetch yields while the endpoint is not yet reliable
FetchOutcomes == {"202", "429", "500", "400", "neterr"}

Min(a, b) == IF a <= b THEN a ELSE b

\* this.buffer.push(event)
bufferPushMutant(buf, e) == <<e>> \o buf

bufferPush(buf, e) == Append(buf, e)

\* this.buffer.splice(0, maxBatchSize): the removed events, and what stays
spliceTaken(buf) == SubSeq(buf, 1, Min(Len(buf), maxBatchSize))
spliceRest(buf) == SubSeq(buf, Min(Len(buf), maxBatchSize) + 1, Len(buf))

\* this.failedBatches.slice(-10)
lastTenMutant(bs) == IF Len(bs) <= PersistCap THEN bs ELSE SubSeq(bs, 1, PersistCap)

lastTen(bs) == IF Len(bs) <= PersistCap THEN bs ELSE SubSeq(bs, Len(bs) - PersistCap + 1, Len(bs))

Events(batch) == {batch[i] : i \in 1..Len(batch)}

NoWait == [ms |-> 0, retryAfter |-> -1]

\* no sendBatch chain has made a fetch yet
NoChain ==
    /\ txPosts' = 0
    /\ tx429' = 0
    /\ txAll5xx' = TRUE
    /\ txLast' = ""
    /\ txWait' = NoWait

TxInit ==
    /\ endpointSet = TRUE
    /\ endpointUp = FALSE
    /\ buffer = <<>>
    /\ isFlushing = FALSE
    /\ failedBatches = <<>>
    /\ eventsSentThisMinute = 0
    /\ stats = [totalSent |-> 0, totalFailed |-> 0, totalDropped |-> 0, totalBatches |-> 0]
    /\ storedFailed = <<>>
    /\ txPc = "idle"
    /\ txBatch = <<>>
    /\ txRetry = 0
    /\ txPhase = "main"
    /\ txRetryList = <<>>
    /\ acked = {}
    /\ nextId = 1
    /\ txPosts = 0
    /\ tx429 = 0
    /\ txAll5xx = TRUE
    /\ txLast = ""
    /\ txWait = NoWait
    /\ activeFlushes = 0
    /\ flushTimer = TRUE
    /\ rateLimitResetTimer = TRUE
    /\ shutPc = "none"
    /\ shutNextId = 0
    /\ initPc = "done"

TxIdle == TxInit

\* if (this.isFlushing || this.buffer.length === 0) return
flushReturnsMutant(flushing, buf) == buf = <<>>

flushReturns(flushing, buf) == flushing \/ buf = <<>>

\* flush() up to its first suspension, entered with buffer buf: nothing when
\* a flush is in progress or buf is empty, otherwise the batch is spliced off
\* and handed to sendBatch.
FlushBegin(buf) ==
    IF flushReturns(isFlushing, buf)
      THEN /\ buffer' = buf
           /\ UNCHANGED <<isFlushing, txPc, txBatch, txRetry, txPhase, txRetryList, txHistory>>
      ELSE /\ isFlushing' = TRUE
           /\ activeFlushes' = activeFlushes + 1
           /\ txBatch' = spliceTaken(buf)
           /\ buffer' = spliceRest(buf)
           /\ txPc' = "sending"
           /\ txRetry' = 0
           /\ txPhase' = "main"
           /\ txRetryList' = <<>>
           /\ NoChain

\* this.eventsSentThisMinute >= 1000
isRateLimitedMutant(sent) == sent > EnqueueRateLimit

isRateLimited(sent) == sent >= EnqueueRateLimit

\* enqueue(event)
TxEnqueue ==
    /\ nextId <= MaxEvents
    /\ UNCHANGED <<endpointSet, endpointUp, failedBatches, eventsSentThisMinute,
                   storedFailed, acked, txShut, notTx>>
    /\ IF isRateLimited(eventsSentThisMinute) THEN
          /\ stats.totalDropped < MaxDropped
          /\ stats' = [stats EXCEPT !.totalDropped = @ + 1]
          /\ UNCHANGED <<buffer, isFlushing, txPc, txBatch, txRetry, txPhase, txRetryList, nextId,
                         txHistory>>
       ELSE
          /\ nextId' = nextId + 1
          /\ UNCHANGED stats
          /\ IF Len(bufferPush(buffer, nextId)) >= maxBatchSize
               THEN FlushBegin(bufferPush(buffer, nextId))
               ELSE /\ buffer' = bufferPush(buffer, nextId)
                    /\ UNCHANGED <<isFlushing, txPc, txBatch, txRetry, txPhase, txRetryList,
                                   txHistory>>

\* The flush interval timer fires.
TxTimerFlush ==
    /\ flushTimer
    /\ FlushBegin(buffer)
    /\ UNCHANGED <<endpointSet, endpointUp, failedBatches, eventsSentThisMinute, stats,
                   storedFailed, acked, nextId, txShut, notTx>>

\* flush() called from the FORCE_FLUSH message or the keep-alive alarm.
TxForceFlush ==
    /\ FlushBegin(buffer)
    /\ UNCHANGED <<endpointSet, endpointUp, failedBatches, eventsSentThisMinute, stats,
                   storedFailed, acked, nextId, txShut, notTx>>

\* What follows the return of a sendBatch call, with failed queue fq: after
\* the batch of flush, retryFailedBatches takes the whole queue; inside
\* retryFailedBatches the next batch of the snapshot is sent; when none is
\* left the flush ends.
AfterSend(fq) ==
    LET todo == IF txPhase = "main" THEN fq ELSE txRetryList
        left == IF txPhase = "main" THEN <<>> ELSE fq
    IN  IF todo = <<>>
          THEN /\ failedBatches' = left
               /\ isFlushing' = FALSE
               /\ activeFlushes' = activeFlushes - 1
               /\ txPc' = "idle"
               /\ txBatch' = <<>>
               /\ txRetry' = 0
               /\ txPhase' = "main"
               /\ txRetryList' = <<>>
               /\ shutPc' = (IF shutPc = "flush" THEN "resume" ELSE shutPc)
               /\ NoChain
          ELSE /\ failedBatches' = left
               /\ txBatch' = Head(todo)
               /\ txRetryList' = Tail(todo)
               /\ txRetry' = 0
               /\ txPhase' = "retry"
               /\ txPc' = "sending"
               /\ NoChain
               /\ UNCHANGED <<isFlushing, activeFlushes, shutPc>>

\* parseInt(response.headers.get('Retry-After') || '60', 10)
parseRetryAfter(header) == IF header = -1 THEN 60 ELSE header

\* this.config.retryBaseMs * Math.pow(2, retryCount)
backoffDelayMutant(retryCount) == retryBaseMs * (retryCount + 1)

backoffDelay(retryCount) == retryBaseMs * 2^retryCount

\* the retryCount of the call that follows a 429: sendBatch(batch, retryCount)
afterRateLimitedMutant(retryCount) == retryCount + 1

afterRateLimited(retryCount) == retryCount

\* status === 429 is tested before the 5xx test and the permanent failure
isPermanentFailureMutant(resp, retryCount) == resp = "400" /\ retryCount >= maxRetries

isPermanentFailure(resp, retryCount) == resp = "400" \/ retryCount >= maxRetries

\* One pass through sendBatch(batch, retryCount): the endpoint check, the
\* fetch with outcome resp (and Retry-After header retryAfter), and what the
\* outcome leads to.
TxAttempt(resp, retryAfter) ==
    /\ txPc = "sending"
    /\ endpointUp => resp = "202"
    /\ resp # "429" => retryAfter = -1
    /\ UNCHANGED <<endpointSet, endpointUp, buffer, nextId, txTimers, shutNextId, initPc, notTx>>
    /\ IF ~endpointSet THEN
          \* no endpoint configured: store for later
          /\ AfterSend(Append(failedBatches, txBatch))
          /\ UNCHANGED <<eventsSentThisMinute, stats, storedFailed, acked>>
       ELSE IF resp = "202" THEN
          /\ stats' = [stats EXCEPT !.totalSent = @ + Len(txBatch), !.totalBatches = @ + 1]
          /\ eventsSentThisMinute' = eventsSentThisMinute + Len(txBatch)
          /\ acked' = acked \cup Events(txBatch)
          /\ AfterSend(failedBatches)
          /\ UNCHANGED storedFailed
       ELSE IF resp = "429" THEN
          \* wait Retry-After, send again
          /\ tx429 < Max429
          /\ txRetry' = afterRateLimited(txRetry)
          /\ txPosts' = txPosts + 1
          /\ tx429' = tx429 + 1
          /\ txAll5xx' = FALSE
          /\ txLast' = resp
          /\ txWait' = [ms |-> parseRetryAfter(retryAfter) * 1000, retryAfter |-> retryAfter]
          /\ UNCHANGED <<failedBatches, eventsSentThisMinute, stats, storedFailed, acked,
                         isFlushing, txPc, txBatch, txPhase, txRetryList, activeFlushes, shutPc>>
       ELSE IF ~isPermanentFailure(resp, txRetry) THEN
          \* 5xx or network error with budget left
          /\ txRetry' = txRetry + 1
          /\ txPosts' = txPosts + 1
          /\ txAll5xx' = (txAll5xx /\ resp = "500")
          /\ txLast' = resp
          /\ txWait' = [ms |-> backoffDelay(txRetry), retryAfter |-> -1]
          /\ UNCHANGED <<failedBatches, eventsSentThisMinute, stats, storedFailed, acked,
                         isFlushing, txPc, txBatch, txPhase, txRetryList, tx429, activeFlushes, shutPc>>
       ELSE
          \* failed permanently: push, then await persistFailedBatches()
          /\ stats' = [stats EXCEPT !.totalFailed = @ + Len(txBatch)]
          /\ failedBatches' = Append(failedBatches, txBatch)
          /\ txPc' = "persisting"
          /\ txPosts' = txPosts + 1
          /\ txAll5xx' = (txAll5xx /\ resp = "500")
          /\ txLast' = resp
          /\ UNCHANGED <<eventsSentThisMinute, storedFailed, acked, isFlushing, txBatch, txRetry,
                         txPhase, txRetryList, tx429, txWait, activeFlushes, shutPc>>

\* chrome.storage.local.set of persistFailedBatches has settled; sendBatch
\* returns to flush or to retryFailedBatches.
TxPersisted ==
    /\ txPc = "persisting"
    /\ storedFailed' = lastTen(failedBatches)
    /\ AfterSend(failedBatches)
    /\ UNCHANGED <<endpointSet, endpointUp, buffer, eventsSentThisMinute, stats, acked, nextId,
                   txTimers, shutNextId, initPc, notTx>>

\* The rate-limit reset timer fires.
TxRateReset ==
    /\ rateLimitResetTimer
    /\ eventsSentThisMinute' = 0
    /\ UNCHANGED <<endpointSet, endpointUp, buffer, isFlushing, failedBatches, stats,
                   storedFailed, txPc, txBatch, txRetry, txPhase, txRetryList, acked,
                   nextId, txHistory, txShut, notTx>>

\* configure(endpoint, apiKey)
TxConfigure(set) ==
    /\ endpointSet' = set
    /\ UNCHANGED <<endpointUp, buffer, isFlushing, failedBatches, eventsSentThisMinute, stats,
                   storedFailed, txPc, txBatch, txRetry, txPhase, txRetryList, acked,
                   nextId, txHistory, txShut, notTx>>

\* Environment: from now on the endpoint accepts every batch.
TxEndpointRecovers ==
    /\ ~endpointUp
    /\ endpointUp' = TRUE
    /\ UNCHANGED <<endpointSet, buffer, isFlushing, failedBatches, eventsSentThisMinute, stats,
                   storedFailed, txPc, txBatch, txRetry, txPhase, txRetryList, acked,
                   nextId, txHistory, txShut, notTx>>

\* shutdown() up to its first await: both timers cleared, flush() called
TxShutdown ==
    /\ shutPc = "none"
    /\ flushTimer' = FALSE
    /\ rateLimitResetTimer' = FALSE
    /\ shutNextId' = nextId
    /\ shutPc' = (IF flushReturns(isFlushing, buffer) THEN "resume" ELSE "flush")
    /\ FlushBegin(buffer)
    /\ UNCHANGED <<endpointSet, endpointUp, failedBatches, eventsSentThisMinute, stats,
                   storedFailed, acked, nextId, initPc, notTx>>

\* shutdown() after await this.flush(): persistFailedBatches takes
\* failedBatches.slice(-10) and hands it to chrome.storage.local.set
TxShutdownPersist ==
    /\ shutPc = "resume"
    /\ storedFailed' = lastTen(failedBatches)
    /\ shutPc' = "persist"
    /\ UNCHANGED <<endpointSet, endpointUp, buffer, isFlushing, failedBatches,
                   eventsSentThisMinute, stats, txPc, txBatch, txRetry, txPhase, txRetryList,
                   acked, nextId, txHistory, txTimers, shutNextId, initPc, notTx>>

\* the store has settled: shutdown() returns
TxShutdownReturns ==
    /\ shutPc = "persist"
    /\ shutPc' = "done"
    /\ UNCHANGED <<endpointSet, endpointUp, buffer, isFlushing, failedBatches,
                   eventsSentThisMinute, stats, storedFailed, txPc, txBatch, txRetry, txPhase,
                   txRetryList, acked, nextId, txHistory, txTimers, shutNextId, initPc, notTx>>

\* initialize(): the device fingerprint is there; both timers are set and
\* restoreFailedBatches asks chrome.storage.local for ghost_failed_batches
TxInitializeTimers ==
    /\ initPc = "fingerprint"
    /\ flushTimer' = TRUE
    /\ rateLimitResetTimer' = TRUE
    /\ initPc' = "getting"
    /\ UNCHANGED <<endpointSet, endpointUp, buffer, isFlushing, failedBatches,
                   eventsSentThisMinute, stats, storedFailed, txPc, txBatch, txRetry, txPhase,
                   txRetryList, acked, nextId, txHistory, shutPc, shutNextId, notTx>>

\* this.failedBatches after the answer stored of chrome.storage.local.get
restoredQueueMutant(queue, stored) == IF stored # <<>> THEN queue \o stored ELSE queue

restoredQueue(queue, stored) == IF stored # <<>> THEN stored ELSE queue

\* restoreFailedBatches: the get has answered
TxRestoreGot ==
    /\ initPc = "getting"
    /\ failedBatches' = restoredQueue(failedBatches, storedFailed)
    /\ initPc' = (IF storedFailed # <<>> THEN "removing" ELSE "done")
    /\ UNCHANGED <<endpointSet, endpointUp, buffer, isFlushing, eventsSentThisMinute, stats,
                   storedFailed, txPc, txBatch, txRetry, txPhase, txRetryList, acked, nextId,
                   txHistory, txTimers, shutPc, shutNextId, notTx>>

\* restoreFailedBatches: chrome.storage.local.remove has settled
TxRestoreRemoved ==
    /\ initPc = "removing"
    /\ storedFailed' = <<>>
    /\ initPc' = "done"
    /\ UNCHANGED <<endpointSet, endpointUp, buffer, isFlushing, failedBatches,
                   eventsSentThisMinute, stats, txPc, txBatch, txRetry, txPhase, txRetryList,
                   acked, nextId, txHistory, txTimers, shutPc, shutNextId, notTx>>

TxSend == \E resp \in FetchOutcomes, retryAfter \in RetryAfterHeaders : TxAttempt(resp, retryAfter)

\* the transmitter with its endpoint configured throughout
TxLiveNext ==
    \/ TxEnqueue
    \/ TxTimerFlush
    \/ TxForceFlush
    \/ TxSend
    \/ TxPersisted
    \/ TxRateReset
    \/ TxEndpointRecovers

TxNext ==
    \/ TxLiveNext
    \/ \E set \in BOOLEAN : TxConfigure(set)

\* ten batches of one event each, as restoreFailedBatches reads them back
RestoredBatches == [i \in 1..PersistCap |-> <<0>>]

\* The transmitter later in its life: right after a start that restored ten
\* stored batches, or in a minute in which 999 events were already sent (in
\* batches of maxBatchSize). Only the last events of the stream are still to come.
TxLateInit ==
    /\ endpointSet = TRUE
    /\ endpointUp = FALSE
    /\ buffer = <<>>
    /\ isFlushing = FALSE
    /\ storedFailed = <<>>
    /\ txPc = "idle"
    /\ txBatch = <<>>
    /\ txRetry = 0
    /\ txPhase = "main"
    /\ txRetryList = <<>>
    /\ txPosts = 0
    /\ tx429 = 0
    /\ txAll5xx = TRUE
    /\ txLast = ""
    /\ txWait = NoWait
    /\ activeFlushes = 0
    /\ flushTimer = TRUE
    /\ rateLimitResetTimer = TRUE
    /\ shutPc = "none"
    /\ shutNextId = 0
    /\ initPc = "done"
    /\ \/ /\ failedBatches = RestoredBatches
          /\ eventsSentThisMinute = 0
          /\ stats = [totalSent |-> 0, totalFailed |-> 0, totalDropped |-> 0, totalBatches |-> 0]
          /\ nextId = MaxEvents
          /\ acked = {}
       \/ /\ failedBatches = <<>>
          /\ eventsSentThisMinute = EnqueueRateLimit - 1
          /\ stats = [totalSent |-> EnqueueRateLimit - 1, totalFailed |-> 0, totalDropped |-> 0, totalBatches |-> EnqueueRateLimit \div maxBatchSize]
          /\ nextId = MaxEvents - 1
          /\ acked = {}

TxLateNext ==
    \/ TxEnqueue
    \/ TxTimerFlush
    \/ TxSend
    \/ TxPersisted
    \/ TxRateReset

\* one batch of one event, left in the store by an earlier life of the worker
StoredBatches == <<<<0>>>>

\* The transmitter as the service worker publishes it: constructed with the
\* configured endpoint or none, initialize() called and awaiting the device
\* fingerprint, no timer set yet; the store is empty or holds StoredBatches.
TxStartInit ==
    /\ endpointSet \in BOOLEAN
    /\ endpointUp = FALSE
    /\ buffer = <<>>
    /\ isFlushing = FALSE
    /\ failedBatches = <<>>
    /\ eventsSentThisMinute = 0
    /\ stats = [totalSent |-> 0, totalFailed |-> 0, totalDropped |-> 0, totalBatches |-> 0]
    /\ storedFailed \in {<<>>, StoredBatches}
    /\ txPc = "idle"
    /\ txBatch = <<>>
    /\ txRetry = 0
    /\ txPhase = "main"
    /\ txRetryList = <<>>
    /\ acked = {}
    /\ nextId = 1
    /\ txPosts = 0
    /\ tx429 = 0
    /\ txAll5xx = TRUE
    /\ txLast = ""
    /\ txWait = NoWait
    /\ activeFlushes = 0
    /\ flushTimer = FALSE
    /\ rateLimitResetTimer = FALSE
    /\ shutPc = "none"
    /\ shutNextId = 0
    /\ initPc = "fingerprint"

TxStartNext ==
    \/ TxEnqueue
    \/ TxTimerFlush
    \/ TxForceFlush
    \/ TxSend
    \/ TxPersisted
    \/ TxInitializeTimers
    \/ TxRestoreGot
    \/ TxRestoreRemoved

\* The transmitter with shutdown(): the continuation of shutdown after its
\* flush runs before any other callback.
TxShutNext ==
    \/ shutPc # "resume" /\ TxEnqueue
    \/ shutPc # "resume" /\ TxTimerFlush
    \/ shutPc # "resume" /\ TxSend
    \/ shutPc # "resume" /\ TxPersisted
    \/ TxShutdown
    \/ TxShutdownPersist
    \/ TxShutdownReturns

\* every batch the transmitter currently holds: in flight, in the snapshot of
\* retryFailedBatches, or on the failed-batch queue
HeldBatches ==
    (IF txPc # "idle" THEN {txBatch} ELSE {})
      \cup {txRetryList[i] : i \in 1..Len(txRetryList)}
      \cup {failedBatches[i] : i \in 1..Len(failedBatches)}

\* C5: every event accepted by enqueue is eventually acknowledged by the
\* endpoint (200/202), also when its batch sits on the failed-batch queue and
\* nothing more is enqueued.
C5_AcceptedEventuallyAcked ==
    \A e \in 1..MaxEvents : (e < nextId) ~> (e \in acked)

\* C8: the buffer holds events in the order enqueue accepted them, every
\* batch built by flush is a contiguous run of that order, and it holds the
\* oldest buffered events: all its events precede those left in the buffer.
C8_BufferOrderKept ==
    /\ \A i, j \in 1..Len(buffer) : i < j => buffer[i] < buffer[j]
    /\ \A b \in HeldBatches :
         /\ \A i \in 1..(Len(b) - 1) : b[i + 1] = b[i] + 1
         /\ \A i \in 1..Len(b), j \in 1..Len(buffer) : b[i] < buffer[j]
    /\ \A e \in acked, j \in 1..Len(buffer) : e < buffer[j]

\* a full batch was built while newer events stay behind in the buffer, which
\* holds more than one event
C8_Witness ==
    /\ txPc = "sending"
    /\ txPhase = "main"
    /\ Len(txBatch) = maxBatchSize
    /\ Len(buffer) >= 2

(***************************************************************************)
(* extension service worker and PrivacyPipeline                            *)
(***************************************************************************)
\* bounds of the service-worker model
MaxPipelines == 2
MaxRawEvents == 3
MaxBucket == 1
MaxResets == 2

DeviceId == "d1"
UserIds == {"anonymous", "u1"}

\* generateSessionFingerprint: HMAC-SHA256 keyed by deviceId over
\* deviceId:userId:floor(sessionStart / 900000); the digest is represented
\* by the triple it is computed from
generateSessionFingerprint(deviceId, userId, b) == <<deviceId, userId, b>>

\* this.sequenceCounter++ and the sequenceNumber of the returned event: both
\* happen after the await, on the counter as it is then
nextSequenceMutant(atCall, atResume) == atCall + 1

nextSequence(atCall, atResume) == atResume + 1

NoPipeline == [deviceId |-> "", userId |-> "", sequenceCounter |-> 0, resets |-> 0]

\* new PrivacyPipeline(orgId, deviceId, userId)
NewPipeline(deviceId, userId) ==
    [deviceId |-> deviceId, userId |-> userId, sequenceCounter |-> 0, resets |-> 0]

SwInit ==
    /\ pipeline = 0
    /\ pipelines = [i \in 1..MaxPipelines |-> NoPipeline]
    /\ nPipelines = 0
    /\ bucket = 0
    /\ inFlight = <<>>
    /\ produced = <<>>
    /\ rawEvents = 0

SwIdle == SwInit

\* initialize(): a new pipeline from the stored configuration
SwInitialize(userId) ==
    /\ nPipelines < MaxPipelines
    /\ nPipelines' = nPipelines + 1
    /\ pipelines' = [pipelines EXCEPT ![nPipelines + 1] = NewPipeline(DeviceId, userId)]
    /\ pipeline' = nPipelines + 1
    /\ UNCHANGED <<bucket, inFlight, produced, rawEvents, notSw>>

\* UPDATE_CONFIG with orgId or userId: the pipeline is replaced
SwUpdateConfig(userId) ==
    /\ nPipelines < MaxPipelines
    /\ nPipelines' = nPipelines + 1
    /\ pipelines' = [pipelines EXCEPT ![nPipelines + 1] = NewPipeline(DeviceId, userId)]
    /\ pipeline' = nPipelines + 1
    /\ UNCHANGED <<bucket, inFlight, produced, rawEvents, notSw>>

\* SESSION_ROTATED from a content script: pipeline.reset()
SwSessionRotated ==
    /\ pipeline # 0
    /\ pipelines[pipeline].resets < MaxResets
    /\ pipelines' = [pipelines EXCEPT ![pipeline].sequenceCounter = 0,
                                      ![pipeline].resets = @ + 1]
    /\ UNCHANGED <<pipeline, nPipelines, bucket, inFlight, produced, rawEvents, notSw>>

\* RAW_EVENT: processEvent calls pipeline.process(event), which runs up to
\* the await of the HMAC; the fingerprint input Date.now() is read here.
SwRawEvent ==
    /\ rawEvents < MaxRawEvents
    /\ rawEvents' = rawEvents + 1
    /\ IF pipeline = 0
         THEN UNCHANGED inFlight
         ELSE inFlight' = Append(inFlight,
                 [pipeline |-> pipeline,
                  sessionFingerprint |->
                      generateSessionFingerprint(pipelines[pipeline].deviceId,
                                                 pipelines[pipeline].userId, bucket),
                  atCall |-> pipelines[pipeline].sequenceCounter])
    /\ UNCHANGED <<pipeline, pipelines, nPipelines, bucket, produced, notSw>>

RemoveAt(seq, i) == SubSeq(seq, 1, i - 1) \o SubSeq(seq, i + 1, Len(seq))

\* The HMAC of in-flight call i resolves: process() increments the counter of
\* its own pipeline instance and returns the Secure Event.
SwProcessResume(i) ==
    /\ i \in 1..Len(inFlight)
    /\ LET call == inFlight[i]
           n == nextSequence(call.atCall, pipelines[call.pipeline].sequenceCounter)
       IN  /\ pipelines' = [pipelines EXCEPT ![call.pipeline].sequenceCounter = n]
           /\ produced' = Append(produced,
                 [sessionFingerprint |-> call.sessionFingerprint,
                  sequenceNumber |-> n,
                  pipeline |-> call.pipeline,
                  resets |-> pipelines[call.pipeline].resets,
                  overlapped |-> \E j \in 1..Len(inFlight) :
                                     j # i /\ inFlight[j].pipeline = call.pipeline])
    /\ inFlight' = RemoveAt(inFlight, i)
    /\ UNCHANGED <<pipeline, nPipelines, bucket, rawEvents, notSw>>

\* process() of in-flight call i throws before it reaches the counter (the
\* HMAC rejects, or the target has no aria record): processEvent logs it.
SwProcessThrows(i) ==
    /\ i \in 1..Len(inFlight)
    /\ inFlight' = RemoveAt(inFlight, i)
    /\ UNCHANGED <<pipeline, pipelines, nPipelines, bucket, produced, rawEvents, notSw>>

\* The device clock enters the next 15-minute bucket.
SwClock ==
    /\ bucket < MaxBucket
    /\ bucket' = bucket + 1
    /\ UNCHANGED <<pipeline, pipelines, nPipelines, inFlight, produced, rawEvents, notSw>>

SwNext ==
    \/ \E userId \in UserIds : SwInitialize(userId)
    \/ \E userId \in UserIds : SwUpdateConfig(userId)
    \/ SwSessionRotated
    \/ SwRawEvent
    \/ \E i \in 1..MaxRawEvents : SwProcessResume(i)
    \/ \E i \in 1..MaxRawEvents : SwProcessThrows(i)
    \/ SwClock

\* C6: among the Secure Events with one sessionFingerprint, sequenceNumber
\* strictly increases in the order the events are produced.
C6_SequenceIncreasesPerFingerprint ==
    \A i, j \in 1..Len(produced) :
        (i < j /\ produced[i].sessionFingerprint = produced[j].sessionFingerprint)
            => produced[i].sequenceNumber < produced[j].sequenceNumber

\* number of events produced before index i by the same pipeline instance
\* since its last reset
EarlierOfInstance(i) ==
    Cardinality({j \in 1..(i - 1) :
        /\ produced[j].pipeline = produced[i].pipeline
        /\ produced[j].resets = produced[i].resets})

\* C7: within one pipeline instance and between two resets, the k-th event
\* returned by process() has sequenceNumber k (distinct, consecutive from 1),
\* also when process() calls overlap.
C7_ConsecutivePerInstance ==
    \A i \in 1..Len(produced) : produced[i].sequenceNumber = EarlierOfInstance(i) + 1

\* two overlapping process() calls of one instance have both returned
C7_Witness ==
    \E i \in 1..Len(produced) :
        /\ produced[i].overlapped
        /\ produced[i].sequenceNumber = 1
        /\ \E j \in (i + 1)..Len(produced) :
              /\ produced[j].pipeline = produced[i].pipeline
              /\ produced[j].resets = produced[i].resets
              /\ produced[j].sequenceNumber = 2

(***************************************************************************)
(* row-level security policies of the migrations                           *)
(***************************************************************************)
\* tables with ROW LEVEL SECURITY enabled, per migration
InitialSchemaTables ==
    {"secure_events", "detected_patterns", "ghosts", "executions", "execution_steps",
     "execution_logs"}

GovernanceTables ==
    {"ghost_versions", "approval_requests", "user_feedback", "org_settings",
     "automation_policies"}

Tables == InitialSchemaTables \cup GovernanceTables

Commands == {"SELECT", "INSERT", "UPDATE", "DELETE"}
Roles == {"anon", "authenticated", "service_role"}
Orgs == {"o1", "o2"}
CurrentOrgs == Orgs \cup {""}        \* "" = app.current_org is not set

Policy(name, table, cmd, using, check) ==
    [name |-> name, table |-> table, cmd |-> cmd, using |-> using, check |-> check]

\* CREATE POLICY statements; using/check name the expression: tenant is
\* org_id = current_setting('app.current_org', true), service is
\* auth.role() = 'service_role', "" is a clause that is not given
InitialSchemaPolicies ==
    {Policy("tenant_isolation_events", "secure_events", "ALL", "tenant", ""),
     Policy("tenant_isolation_patterns", "detected_patterns", "ALL", "tenant", ""),
     Policy("tenant_isolation_ghosts", "ghosts", "ALL", "tenant", ""),
     Policy("tenant_isolation_logs", "execution_logs", "ALL", "tenant", ""),
     Policy("audit_append_only", "execution_logs", "INSERT", "", "true"),
     Policy("service_role_full_access_events", "secure_events", "ALL", "service", ""),
     Policy("service_role_full_access_patterns", "detected_patterns", "ALL", "service", ""),
     Policy("service_role_full_access_ghosts", "ghosts", "ALL", "service", ""),
     Policy("service_role_full_access_executions", "executions", "ALL", "service", ""),
     Policy("service_role_full_access_steps", "execution_steps", "ALL", "service", ""),
     Policy("service_role_full_access_logs", "execution_logs", "ALL", "service", "")}

GovernancePolicies ==
    {Policy("tenant_ghost_versions", "ghost_versions", "ALL", "true", "true"),
     Policy("tenant_approval_requests", "approval_requests", "ALL", "tenant", "tenant"),
     Policy("tenant_user_feedback", "user_feedback", "ALL", "tenant", "tenant"),
     Policy("tenant_org_settings", "org_settings", "ALL", "tenant", "tenant"),
     Policy("tenant_automation_policies", "automation_policies", "ALL", "tenant", "tenant"),
     Policy("feedback_immutable", "user_feedback", "UPDATE", "false", ""),
     Policy("feedback_no_delete", "user_feedback", "DELETE", "false", "")}

Policies == InitialSchemaPolicies \cup GovernancePolicies

\* value of a policy expression for a caller and a row of organisation rowOrg
\* (for ghost_versions, executions, execution_steps: of the owning Ghost)
Holds(expr, role, currentOrg, rowOrg) ==
    IF expr = "tenant" THEN currentOrg # "" /\ rowOrg = currentOrg
    ELSE IF expr = "service" THEN role = "service_role"
    ELSE expr = "true"

\* the policies that apply to a command on a table (all are PERMISSIVE, the
\* default of CREATE POLICY, and name no role)
Applicable(table, cmd) == {p \in Policies : p.table = table /\ p.cmd \in {"ALL", cmd}}

\* permissive policies are combined with OR; a table with row security
\* enabled and no applicable policy denies
UsingPasses(table, cmd, role, currentOrg, rowOrg) ==
    \E p \in Applicable(table, cmd) :
        p.using # "" /\ Holds(p.using, role, currentOrg, rowOrg)

\* WITH CHECK defaults to the USING expression when it is not given
CheckPasses(table, cmd, role, currentOrg, rowOrg) ==
    \E p \in Applicable(table, cmd) :
        Holds(IF p.check # "" THEN p.check ELSE p.using, role, currentOrg, rowOrg)

\* Is the statement let through for the existing row (oldOrg) and the row
\* it writes (newOrg)?
Allowed(stmt) ==
    IF stmt.cmd \in {"SELECT", "DELETE"}
      THEN UsingPasses(stmt.table, stmt.cmd, stmt.role, stmt.currentOrg, stmt.oldOrg)
    ELSE IF stmt.cmd = "INSERT"
      THEN CheckPasses(stmt.table, stmt.cmd, stmt.role, stmt.currentOrg, stmt.newOrg)
    ELSE /\ UsingPasses(stmt.table, stmt.cmd, stmt.role, stmt.currentOrg, stmt.oldOrg)
         /\ CheckPasses(stmt.table, stmt.cmd, stmt.role, stmt.currentOrg, stmt.newOrg)

Statements ==
    [table : Tables, cmd : Commands, role : Roles, currentOrg : CurrentOrgs,
     oldOrg : Orgs, newOrg : Orgs]

NoStatement ==
    [table |-> "", cmd |-> "", role |-> "", currentOrg |-> "", oldOrg |-> "", newOrg |-> ""]

RlsInit ==
    /\ rlsStmt = NoStatement
    /\ rlsOutcome = "none"

RlsIdle == RlsInit

\* A session submits a statement on one row.
RlsSubmit(stmt) ==
    /\ rlsOutcome # "pending"
    /\ rlsStmt' = stmt
    /\ rlsOutcome' = "pending"
    /\ UNCHANGED notRls

\* Row security decides on the statement.
RlsDecide ==
    /\ rlsOutcome = "pending"
    /\ rlsOutcome' = IF Allowed(rlsStmt) THEN "allowed" ELSE "denied"
    /\ UNCHANGED <<rlsStmt, notRls>>

RlsNext ==
    \/ \E stmt \in Statements : RlsSubmit(stmt)
    \/ RlsDecide

\* C9: every UPDATE and every DELETE against execution_logs and user_feedback
\* by a caller that is not the service role is denied.
C9_AuditRowsImmutable ==
    (/\ rlsOutcome \in {"allowed", "denied"}
     /\ rlsStmt.table \in {"execution_logs", "user_feedback"}
     /\ rlsStmt.cmd \in {"UPDATE", "DELETE"}
     /\ rlsStmt.role # "service_role")
        => rlsOutcome = "denied"

\* C10: a caller that is not the service role reads or writes a row only
\* when app.current_org equals the organisation of the row (of the owning
\* Ghost for ghost_versions, executions, execution_steps), for the row it
\* touches and for the row it writes.
C10_TenantIsolation ==
    (rlsOutcome = "allowed" /\ rlsStmt.role # "service_role")
        => /\ rlsStmt.cmd # "INSERT" => rlsStmt.oldOrg = rlsStmt.currentOrg
           /\ rlsStmt.cmd \in {"INSERT", "UPDATE"} => rlsStmt.newOrg = rlsStmt.currentOrg

(***************************************************************************)
(* PiiScrubber, IntentEncoder and PrivacyPipeline.process                  *)
(* A text is a sequence of segments (strings); a segment is either plain   *)
(* or one match of a scrubber pattern.                                     *)
(***************************************************************************)
\* the scrubber pattern a segment matches, "" for none
PiiType(seg) ==
    IF seg \in {"a@b.co", "A@B.co", "c@d.io"} THEN "EMAIL"
    ELSE IF seg \in {"token=abc", "token=xyz"} THEN "AUTH_TOKEN"
    ELSE ""

PiiTypes == {"EMAIL", "AUTH_TOKEN"}

NoCounters == [t \in PiiTypes |-> <<>>]

\* position of value v in the sequence seen, 0 when absent
IndexOf(seen, v) ==
    IF \E i \in 1..Len(seen) : seen[i] = v
      THEN CHOOSE i \in 1..Len(seen) : seen[i] = v
      ELSE 0

\* value.toLowerCase().replace(/[\s\-.]/g, '')
normalizedValue(value) ==
    IF value \in {"a@b.co", "A@B.co"} THEN "a@bco"
    ELSE IF value = "c@d.io" THEN "c@dio"
    ELSE value

\* getReplacement: the counters after the value is looked up ...
countersAfter(counters, type, value) ==
    IF IndexOf(counters[type], normalizedValue(value)) = 0
      THEN [counters EXCEPT ![type] = Append(@, normalizedValue(value))]
      ELSE counters

\* ... and the token [TYPE_N]
getReplacement(counters, type, value) ==
    "[" \o type \o "_" \o ToString(IndexOf(countersAfter(counters, type, value)[type], normalizedValue(value))) \o "]"

\* scrub(text): entities are replaced from the end of the text to its start;
\* the result is the scrubbed text and the counters left behind
RECURSIVE scrubFrom(_, _, _)
scrubFrom(text, i, counters) ==
    IF i = 0 THEN [text |-> text, counters |-> counters]
    ELSE IF PiiType(text[i]) = "" THEN scrubFrom(text, i - 1, counters)
    ELSE scrubFrom([text EXCEPT ![i] = getReplacement(counters, PiiType(text[i]), text[i])],
                   i - 1,
                   countersAfter(counters, PiiType(text[i]), text[i]))

scrub(text, counters) == scrubFrom(text, Len(text), counters)

\* containsPii(text)
containsPii(text) == \E i \in 1..Len(text) : PiiType(text[i]) # ""

\* hashUrl(url): the origin is kept, path and query become an FNV-1a hash
hashUrl(url) ==
    IF url = <<>> THEN <<"[INVALID_URL]">> ELSE <<Head(url), "fnv1a">>

\* the lowercase words of the classifier that occur inside a segment
ClassifierKeywords ==
    {"auth", "login", "token", "message", "email", "send", "search", "query",
     "export", "download"}

SegmentKeywords(seg) ==
    IF seg \in ClassifierKeywords THEN {seg}
    ELSE IF seg \in {"token=abc", "token=xyz"} THEN {"token"}
    ELSE {}

\* url.includes(word)
includes(url, word) == \E i \in 1..Len(url) : word \in SegmentKeywords(url[i])

\* ---- raw events ----
UserActions == {"click", "input", "scroll", "navigate", "focus", "select", "copy", "paste"}
TagNames == {"a", "button", "input", "div"}
AriaRoles == {"", "button"}
InputTypes == {"", "password", "email", "submit", "checkbox"}
FormIds == {"", "f1"}
DomPaths == {<<"html", "body">>, <<"html", "body", "main", "form">>}
HttpMethods == {"", "get", "POST", "DELETE"}
StatusCodes == {0, 200, 404}

PayloadUrls ==
    {<<"https://api.example", "home">>,
     <<"https://api.example", "login">>,
     <<"https://api.example", "send", "a@b.co">>,
     <<"https://api.example", "search", "token=abc">>,
     <<"https://api.example", "token=abc">>,
     <<"https://api.example", "export">>}

Mutation(tagName, formId, added, removed) ==
    [tagName |-> tagName, formId |-> formId, addedNodes |-> added, removedNodes |-> removed,
     oldValue |-> <<>>, newValue |-> <<>>]

MutationLists ==
    {<<>>,
     <<Mutation("div", "", 1, 0)>>,
     <<Mutation("div", "", 15, 0), Mutation("div", "", 0, 6)>>,
     <<Mutation("input", "", 0, 0)>>,
     <<Mutation("div", "f1", 1, 1)>>}

\* the fields of a raw event that carry no user text
BaseEvent(eventType, action, hasTarget, tagName, role, inputType, formId, domPath, mutations, payloadUrl, method, statusCode) ==
    [eventType |-> eventType, action |-> action, hasTarget |-> hasTarget,
     tagName |-> tagName, role |-> role, inputType |-> inputType, formId |-> formId,
     domPath |-> domPath, mutations |-> mutations, payloadUrl |-> payloadUrl,
     method |-> method, statusCode |-> statusCode,
     value |-> <<>>, message |-> <<>>, stack |-> <<>>, textPreview |-> <<>>,
     ariaLabel |-> <<>>, contextUrl |-> <<>>]

UserIntEvents ==
    {BaseEvent("user_int", a, TRUE, t, r, it, f, dp, <<>>, <<>>, "", 0) :
        a \in UserActions, t \in TagNames, r \in AriaRoles, it \in InputTypes,
        f \in FormIds, dp \in DomPaths}

DomMutEvents ==
    {BaseEvent("dom_mut", "", FALSE, "", "", "", "", <<>>, ms, <<>>, "", 0) :
        ms \in MutationLists}

NetworkEvents ==
    {BaseEvent("network", "", FALSE, "", "", "", "", <<>>, <<>>, u, m, sc) :
        u \in PayloadUrls, m \in HttpMethods, sc \in StatusCodes}

OtherEvents ==
    {BaseEvent(et, "", FALSE, "", "", "", "", <<>>, <<>>, <<>>, "", 0) :
        et \in {"error", "custom"}}

BaseEvents == UserIntEvents \cup DomMutEvents \cup NetworkEvents \cup OtherEvents

\* user text and page URL of an event
TextProfile(value, message, stack, textPreview, ariaLabel, contextUrl, oldValue, newValue) ==
    [value |-> value, message |-> message, stack |-> stack, textPreview |-> textPreview,
     ariaLabel |-> ariaLabel, contextUrl |-> contextUrl, oldValue |-> oldValue,
     newValue |-> newValue]

TextProfiles ==
    {TextProfile(<<>>, <<>>, <<>>, <<>>, <<>>, <<>>, <<>>, <<>>),
     TextProfile(<<"hunter2">>, <<"boom">>, <<"at", "login">>, <<"Sign", "in">>,
                 <<"Password">>, <<"https://app.example", "login">>, <<"old">>, <<"new">>),
     TextProfile(<<"token=xyz", "c@d.io">>, <<"a@b.co">>, <<"at", "search">>, <<"a@b.co">>,
                 <<"search">>, <<"https://app.example", "search", "token=xyz">>,
                 <<"c@d.io">>, <<"a@b.co">>)}

\* the raw event with base fields b and texts p
WithTexts(b, p) ==
    [b EXCEPT !.value = p.value, !.message = p.message, !.stack = p.stack,
              !.textPreview = IF b.hasTarget THEN p.textPreview ELSE <<>>,
              !.ariaLabel = IF b.hasTarget THEN p.ariaLabel ELSE <<>>,
              !.contextUrl = p.contextUrl,
              !.mutations = [i \in 1..Len(b.mutations) |->
                               [b.mutations[i] EXCEPT !.oldValue = p.oldValue,
                                                      !.newValue = p.newValue]]]

\* scrubEvent, the mutations loop: oldValue then newValue of each mutation
RECURSIVE scrubMutations(_, _, _)
scrubMutations(ms, i, counters) ==
    IF i > Len(ms) THEN [mutations |-> ms, counters |-> counters]
    ELSE LET o == scrub(ms[i].oldValue, counters)
             n == scrub(ms[i].newValue, o.counters)
         IN  scrubMutations([ms EXCEPT ![i].oldValue = o.text, ![i].newValue = n.text],
                            i + 1, n.counters)

\* scrubEvent(event): a scrubbed clone of the event and the counters left
scrubEvent(event, counters) ==
    LET v == scrub(event.value, counters)
        m == scrub(event.message, v.counters)
        t == scrub(event.textPreview, m.counters)
        ms == scrubMutations(event.mutations, 1, t.counters)
        u == IF containsPii(event.payloadUrl)
               THEN scrub(event.payloadUrl, ms.counters)
               ELSE [text |-> event.payloadUrl, counters |-> ms.counters]
    IN  [event |-> [event EXCEPT !.value = v.text, !.message = m.text,
                                 !.textPreview = t.text, !.mutations = ms.mutations,
                                 !.payloadUrl = u.text,
                                 !.contextUrl = hashUrl(event.contextUrl)],
         counters |-> u.counters]

Intent(label, confidence) == [label |-> label, confidence |-> confidence]

\* inputType === 'password' || inputType === 'email'
isCredentialInputMutant(inputType) == inputType = "email"

isCredentialInput(inputType) == inputType \in {"password", "email"}

\* classifyUserInteraction; confidence in hundredths
classifyUserInteraction(event) ==
    IF event.action \in {"input", "paste"} THEN
        IF isCredentialInput(event.inputType) THEN Intent("authentication", 85)
        ELSE Intent("data_entry", 90)
    ELSE IF event.action = "navigate" THEN Intent("navigation", 95)
    ELSE IF event.action = "click" /\ event.tagName = "a" THEN Intent("navigation", 85)
    ELSE IF /\ event.action = "click"
            /\ (event.tagName = "button" \/ event.role = "button" \/ event.inputType = "submit")
      THEN IF event.formId # "" THEN Intent("data_entry", 80)
           ELSE Intent("workflow_transition", 70)
    ELSE IF event.action = "click" /\ event.inputType \in {"checkbox", "radio"}
      THEN Intent("configuration", 75)
    ELSE IF event.action = "select" THEN Intent("data_entry", 85)
    ELSE IF event.action = "copy" THEN Intent("data_extraction", 80)
    ELSE IF event.action = "scroll" THEN Intent("research", 50)
    ELSE IF event.action = "focus" THEN Intent("navigation", 40)
    ELSE Intent("unknown", 20)

RECURSIVE totalNodes(_)
totalNodes(ms) ==
    IF ms = <<>> THEN 0
    ELSE Head(ms).addedNodes + Head(ms).removedNodes + totalNodes(Tail(ms))

\* classifyDomMutation
classifyDomMutation(event) ==
    IF event.mutations = <<>> THEN Intent("unknown", 10)
    ELSE IF totalNodes(event.mutations) > 20 THEN Intent("navigation", 60)
    ELSE IF \E i \in 1..Len(event.mutations) :
               \/ event.mutations[i].tagName \in {"input", "textarea", "select"}
               \/ event.mutations[i].formId # ""
      THEN Intent("data_entry", 50)
    ELSE Intent("workflow_transition", 40)

\* method?.toUpperCase()
toUpperCase(method) == IF method = "get" THEN "GET" ELSE method

\* const url = event.payload.url || ''
networkUrlMutant(event) == event.stack

networkUrl(event) == event.payloadUrl

\* classifyNetworkEvent
classifyNetworkEvent(event) ==
    LET method == IF event.method = "" THEN "GET" ELSE toUpperCase(event.method)
        url == networkUrl(event)
    IN  IF method \in {"POST", "PUT", "PATCH"} THEN
            IF includes(url, "auth") \/ includes(url, "login") \/ includes(url, "token")
              THEN Intent("authentication", 85)
            ELSE IF includes(url, "message") \/ includes(url, "email") \/ includes(url, "send")
              THEN Intent("communication", 75)
            ELSE Intent("data_entry", 70)
        ELSE IF method = "DELETE" THEN Intent("workflow_transition", 70)
        ELSE IF includes(url, "search") \/ includes(url, "query") THEN Intent("research", 70)
        ELSE IF includes(url, "export") \/ includes(url, "download")
          THEN Intent("data_extraction", 75)
        ELSE IF event.statusCode >= 400 THEN Intent("error_handling", 60)
        ELSE Intent("navigation", 40)

\* classify
classify(event) ==
    IF event.eventType = "user_int" THEN classifyUserInteraction(event)
    ELSE IF event.eventType = "dom_mut" THEN classifyDomMutation(event)
    ELSE IF event.eventType = "network" THEN classifyNetworkEvent(event)
    ELSE IF event.eventType = "error" THEN Intent("error_handling", 90)
    ELSE Intent("unknown", 10)

\* indexOf in the actions / methods arrays, a miss counting as 0
actionIndex(action) ==
    CASE action = "click" -> 0 [] action = "input" -> 1 [] action = "scroll" -> 2
      [] action = "navigate" -> 3 [] action = "focus" -> 4 [] action = "select" -> 5
      [] action = "copy" -> 6 [] action = "paste" -> 7 [] OTHER -> 0

methodIndex(method) ==
    CASE method = "GET" -> 0 [] method = "POST" -> 1 [] method = "PUT" -> 2
      [] method = "PATCH" -> 3 [] method = "DELETE" -> 4 [] OTHER -> 0

\* extractFeatures: action, tag, DOM depth, method, status (before scaling)
extractFeatures(event) ==
    <<actionIndex(event.action), event.tagName, Len(event.domPath),
      methodIndex(toUpperCase(event.method)), event.statusCode>>

\* generateVector: the class seed's base vector modulated by the features
generateVector(label, event) == <<label, extractFeatures(event)>>

\* encode
encode(event) ==
    [label |-> classify(event).label, confidence |-> classify(event).confidence,
     vector |-> generateVector(classify(event).label, event)]

RECURSIVE join(_, _)
join(path, sep) ==
    IF path = <<>> THEN ""
    ELSE IF Len(path) = 1 THEN path[1]
    ELSE path[1] \o sep \o join(Tail(path), sep)

\* domPath.slice(-3)
lastThree(path) == IF Len(path) <= 3 THEN path ELSE SubSeq(path, Len(path) - 2, Len(path))

\* generateElementSignature
generateElementSignature(role, domPath, tagName) ==
    tagName \o (IF role # "" THEN "[" \o role \o "]" ELSE "") \o "@" \o join(lastThree(domPath), ">")

\* generateStructuralHash: FNV-1a of the joined path and the tag
generateStructuralHash(domPath, tagName) == <<"fnv1a", join(domPath, ">") \o ":" \o tagName>>

\* process(event): the event-derived fields of the Secure Event (the intent
\* vector before perturbVector), and the counters left behind
process(event, counters) ==
    LET scrubbed == scrubEvent(event, counters)
        intent == encode(scrubbed.event)
    IN  [event |->
           [intentVector |-> intent.vector,
            structuralHash |-> generateStructuralHash(event.domPath, event.tagName),
            orgId |-> "default_org",
            eventType |-> event.eventType,
            intentLabel |-> intent.label,
            intentConfidence |-> intent.confidence,
            elementSignature |->
                IF event.hasTarget
                  THEN generateElementSignature(event.role, event.domPath, event.tagName)
                  ELSE "null"],
         counters |-> scrubbed.counters]

NoRawEvent == BaseEvent("", "", FALSE, "", "", "", "", <<>>, <<>>, <<>>, "", 0)

NoSecureEvent ==
    [intentVector |-> <<>>, structuralHash |-> <<>>, orgId |-> "", eventType |-> "",
     intentLabel |-> "", intentConfidence |-> 0, elementSignature |-> ""]

EncInit ==
    /\ encA = NoRawEvent
    /\ encB = NoRawEvent
    /\ encOutA = NoSecureEvent
    /\ encOutB = NoSecureEvent
    /\ entityCounters = NoCounters
    /\ encPc = "idle"

EncIdle == EncInit

\* Two raw events arrive that agree on everything but user text and page URL.
EncSubmit(base, textsA, textsB) ==
    /\ encPc = "idle"
    /\ encA' = WithTexts(base, textsA)
    /\ encB' = WithTexts(base, textsB)
    /\ encPc' = "first"
    /\ UNCHANGED <<encOutA, encOutB, entityCounters, notEnc>>

\* pipeline.process(encA)
EncProcessFirst ==
    /\ encPc = "first"
    /\ encOutA' = process(encA, entityCounters).event
    /\ entityCounters' = process(encA, entityCounters).counters
    /\ encPc' = "second"
    /\ UNCHANGED <<encA, encB, encOutB, notEnc>>

\* SESSION_ROTATED between the two events: PiiScrubber.resetCounters()
EncResetCounters ==
    /\ encPc = "second"
    /\ entityCounters # NoCounters
    /\ entityCounters' = NoCounters
    /\ UNCHANGED <<encA, encB, encOutA, encOutB, encPc, notEnc>>

\* pipeline.process(encB)
EncProcessSecond ==
    /\ encPc = "second"
    /\ encOutB' = process(encB, entityCounters).event
    /\ entityCounters' = process(encB, entityCounters).counters
    /\ encPc' = "done"
    /\ UNCHANGED <<encA, encB, encOutA, notEnc>>

EncNext ==
    \/ \E base \in BaseEvents, textsA, textsB \in TextProfiles : EncSubmit(base, textsA, textsB)
    \/ EncProcessFirst
    \/ EncResetCounters
    \/ EncProcessSecond

\* the user texts and the page URL of a raw event, each joined to one string
UserTexts(event) ==
    {join(t, " ") : t \in ({event.value, event.message, event.stack, event.textPreview,
                            event.ariaLabel, event.contextUrl}
                           \cup {event.mutations[i].oldValue : i \in 1..Len(event.mutations)}
                           \cup {event.mutations[i].newValue : i \in 1..Len(event.mutations)})
                          \ {<<>>}}

\* the string-valued fields of a Secure Event
StringFields(out) ==
    {out.orgId, out.eventType, out.intentLabel, out.elementSignature, out.structuralHash[2]}

\* C11: two raw events that differ only in user text and page URL yield
\* Secure Events with the same intentLabel, intentConfidence, structuralHash,
\* elementSignature and pre-noise intent vector, and no Secure Event field
\* is a copy of one of those inputs.
C11_OutputIndependentOfUserText ==
    encPc = "done" =>
        /\ encOutA.intentLabel = encOutB.intentLabel
        /\ encOutA.intentConfidence = encOutB.intentConfidence
        /\ encOutA.structuralHash = encOutB.structuralHash
        /\ encOutA.elementSignature = encOutB.elementSignature
        /\ encOutA.intentVector = encOutB.intentVector
        /\ StringFields(encOutA) \cap UserTexts(encA) = {}
        /\ StringFields(encOutB) \cap UserTexts(encB) = {}

\* both events processed; they differ in value and page URL, and the second
\* one's value and request URL each left an AUTH_TOKEN entity in the counters
C11_Witness ==
    /\ encPc = "done"
    /\ encA.eventType = "network"
    /\ encA.method = "POST"
    /\ encA.contextUrl # encB.contextUrl
    /\ encA.value # encB.value
    /\ containsPii(encB.value)
    /\ includes(encA.payloadUrl, "token")
    /\ ~includes(encA.contextUrl, "search")
    /\ includes(encB.contextUrl, "search")
    /\ Len(entityCounters["AUTH_TOKEN"]) = 2
    /\ encOutB.intentLabel = encOutA.intentLabel

\* C12 as stated: a user_int click on an input element of inputType password
\* yields intentLabel authentication with intentConfidence 0.85.
C12_ClickOnPasswordIsAuthentication ==
    (/\ encPc \in {"second", "done"}
     /\ encA.eventType = "user_int"
     /\ encA.action = "click"
     /\ encA.tagName = "input"
     /\ encA.inputType = "password")
        => /\ encOutA.intentLabel = "authentication"
           /\ encOutA.intentConfidence = 85

\* C12 amended: a user_int event with action input or paste on an element
\* of inputType password yields authentication / 0.85; a click on a password
\* input element (no button role) yields unknown / 0.2.
C12_InputOnPasswordIsAuthentication ==
    encPc \in {"second", "done"} /\ encA.eventType = "user_int" =>
        /\ (encA.action \in {"input", "paste"} /\ encA.inputType = "password")
              => (encOutA.intentLabel = "authentication" /\ encOutA.intentConfidence = 85)
        /\ (/\ encA.action = "click" /\ encA.tagName = "input"
            /\ encA.inputType = "password" /\ encA.role = "")
              => (encOutA.intentLabel = "unknown" /\ encOutA.intentConfidence = 20)

\* the password "hunter2" was typed into a password input and processed
C12_Witness ==
    /\ encPc = "done"
    /\ encA.eventType = "user_int"
    /\ encA.action = "input"
    /\ encA.tagName = "input"
    /\ encA.inputType = "password"
    /\ encA.value = <<"hunter2">>
    /\ encOutA.intentLabel = "authentication"

\* C35: an event that matches no row of the decision table is labelled
\* unknown with a confidence from 0.10 to 0.20: a network GET with status
\* below 400 whose URL contains none of search, query, export, download, and
\* a dom_mut event with at most 20 added+removed nodes and no mutation on
\* input/textarea/select or inside a form.
C35_UnmatchedIsUnknown ==
    encPc \in {"second", "done"} =>
        /\ (/\ encA.eventType = "network"
            /\ encA.method \in {"", "get"}
            /\ encA.statusCode < 400
            /\ \A word \in {"search", "query", "export", "download"} : ~includes(encA.payloadUrl, word))
              => (encOutA.intentLabel = "unknown" /\ encOutA.intentConfidence \in 10..20)
        /\ (/\ encA.eventType = "dom_mut"
            /\ totalNodes(encA.mutations) <= 20
            /\ \A i \in 1..Len(encA.mutations) :
                  /\ encA.mutations[i].tagName \notin {"input", "textarea", "select"}
                  /\ encA.mutations[i].formId = "")
              => (encOutA.intentLabel = "unknown" /\ encOutA.intentConfidence \in 10..20)

(***************************************************************************)
(* pattern-detector                                                        *)
(***************************************************************************)
\* bounds of the detector model
MaxDetRuns == 2
MaxSessionLen == 5

WINDOW_SIZE == 50
MIN_CLUSTER_SIZE == 3
\* TEMPORAL_WINDOW_MS, in minutes
TEMPORAL_WINDOW == 30
\* AUTO_SUGGEST_THRESHOLD and REVIEW_THRESHOLD, in hundredths
AUTO_SUGGEST_THRESHOLD == 85
REVIEW_THRESHOLD == 70
MaxClustersLifted == 5

\* Confidences are integers in hundredths; timestamps are minutes after the
\* earliest bucket; an intent vector is kept to two dimensions.
SecureEvent(session, seq, ts, label, conf, vec) == [sessionFingerprint |-> session, sequenceNumber |-> seq, timestampBucket |-> ts, intentLabel |-> label, intentConfidence |-> conf, intentVector |-> vec]

\* A session as it was recorded: pattern says which labels its events
\* carry, start is the bucket of its first event, stride the minutes between
\* the buckets of two consecutive events.
SessionPatterns == {"navigation", "data_entry", "mixed"}
SessionShape(pattern, len, start, stride) == [pattern |-> pattern, len |-> len, start |-> start, stride |-> stride]

LabelAt(pattern, i) ==
    IF pattern = "mixed" THEN (IF i = 1 THEN "navigation" ELSE "data_entry") ELSE pattern

sessionEvents(session, shape) ==
    [i \in 1..shape.len |->
        LET label == LabelAt(shape.pattern, i)
        IN  SecureEvent(session, i, shape.start + (i - 1) * shape.stride, label,
                        IF label = "navigation" THEN 70 ELSE 85,
                        IF label = "navigation" THEN <<1, 0>> ELSE <<0, 1>>)]

\* the longest-running session of the org, and up to two short ones that
\* were ingested after it
LongSessions ==
    {SessionShape(p, n, t, d) : p \in SessionPatterns, n \in 1..MaxSessionLen, t \in {0, 30}, d \in {0, 15}}
ShortSessions ==
    {SessionShape(p, 3, t, 0) : p \in {"navigation", "data_entry"}, t \in {0, 45}}

Reverse(q) == [i \in 1..Len(q) |-> q[Len(q) + 1 - i]]

\* .order('ingested_at', { ascending: false }) over rows ingested session
\* by session
DetStores ==
    {<<>>}
    \cup {Reverse(sessionEvents("s1", a)) : a \in LongSessions}
    \cup {Reverse(sessionEvents("s1", a) \o sessionEvents("s2", b)) :
            a \in LongSessions, b \in ShortSessions}
    \cup {Reverse(sessionEvents("s1", a) \o sessionEvents("s2", b) \o sessionEvents("s3", c)) :
            a \in LongSessions, b \in ShortSessions, c \in ShortSessions}

Max(a, b) == IF a >= b THEN a ELSE b

SeqRange(q) == {q[i] : i \in 1..Len(q)}

\* the elements of a set of integers in ascending order
Ascending(S) == [k \in 1..Cardinality(S) |-> CHOOSE x \in S : Cardinality({y \in S : y < x}) = k - 1]

\* averageVectors, up to the division by vectors.length, which no cosine
\* depends on
sumVectors(vectors) ==
    IF Len(vectors) = 0 THEN <<>>
    ELSE [d \in 1..Len(vectors[1]) |->
            LET RECURSIVE total(_)
                total(k) == IF k = 0 THEN 0 ELSE total(k - 1) + vectors[k][d]
            IN  total(Len(vectors))]

\* cosineSimilarity(a, b) >= 0.75, for vectors without negative components
similarEnoughMutant(a, b) == TRUE

similarEnough(a, b) ==
    IF Len(a) = 0 \/ Len(b) = 0 THEN FALSE
    ELSE LET n == Min(Len(a), Len(b))
             RECURSIVE dot(_, _, _)
             dot(x, y, k) == IF k = 0 THEN 0 ELSE dot(x, y, k - 1) + x[k] * y[k]
             ab == dot(a, b, n)
             normA == dot(a, a, n)
             normB == dot(b, b, n)
         IN  normA * normB # 0 /\ 16 * ab * ab >= 9 * normA * normB

\* the session keys in the order the Map got them
sessionKeys(events) ==
    LET firsts == {i \in 1..Len(events) :
                      \A j \in 1..(i - 1) :
                          events[j].sessionFingerprint # events[i].sessionFingerprint}
        order == Ascending(firsts)
    IN  [k \in 1..Len(order) |-> events[order[k]].sessionFingerprint]

\* sessionEvents.sort((a, b) => a.sequenceNumber - b.sequenceNumber)
sortBySequenceNumber(evs) ==
    [k \in 1..Len(evs) |->
        CHOOSE e \in SeqRange(evs) :
            Cardinality({f \in SeqRange(evs) : f.sequenceNumber < e.sequenceNumber}) = k - 1]

EventSequence(window) == [events |-> window, embedding |-> sumVectors([i \in 1..Len(window) |-> window[i].intentVector]), timestamp |-> window[1].timestampBucket]

\* the sliding windows of one session
windowsOfMutant(sorted, windowSize) ==
    IF Len(sorted) < 3 THEN <<>>
    ELSE [i \in 1..(Len(sorted) - 2) |->
            EventSequence(SubSeq(sorted, i, Min(i + windowSize, Len(sorted))))]

windowsOf(sorted, windowSize) ==
    IF Len(sorted) < 3 THEN <<>>
    ELSE [i \in 1..(Len(sorted) - 2) |->
            EventSequence(SubSeq(sorted, i, Min(i - 1 + windowSize, Len(sorted))))]

\* extractSequences
extractSequences(events, windowSize) ==
    LET keys == sessionKeys(events)
        of(key) == LET in(e) == e.sessionFingerprint = key
                   IN  sortBySequenceNumber(SelectSeq(events, in))
        RECURSIVE upTo(_)
        upTo(k) == IF k = 0 THEN <<>> ELSE upTo(k - 1) \o windowsOf(of(keys[k]), windowSize)
    IN  upTo(Len(keys))

\* similarity >= SIMILARITY_THRESHOLD && timeDiffMs <= TEMPORAL_WINDOW_MS
joins(seed, other) ==
    /\ similarEnough(seed.embedding, other.embedding)
    /\ Max(seed.timestamp - other.timestamp, other.timestamp - seed.timestamp) <= TEMPORAL_WINDOW

\* clusterSequences: a cluster is kept as the sequence of its members
clusterSequences(sequences) ==
    LET RECURSIVE from(_, _)
        from(i, assigned) ==
            IF i > Len(sequences) THEN <<>>
            ELSE IF i \in assigned THEN from(i + 1, assigned)
            ELSE LET joined == {j \in (i + 1)..Len(sequences) :
                                   j \notin assigned /\ joins(sequences[i], sequences[j])}
                     idx == Ascending({i} \cup joined)
                 IN  <<[members |-> [k \in 1..Len(idx) |-> sequences[idx[k]]]]>>
                       \o from(i + 1, assigned \cup {i} \cup joined)
    IN  from(1, {})

\* clusters.filter((c) => c.members.length >= MIN_CLUSTER_SIZE)
isValidClusterMutant(cluster) == Len(cluster.members) >= MIN_CLUSTER_SIZE - 1

isValidCluster(cluster) == Len(cluster.members) >= MIN_CLUSTER_SIZE

validClusters(clusters) == SelectSeq(clusters, isValidCluster)

labelsOf(member) == [i \in 1..Len(member.events) |-> member.events[i].intentLabel]

\* What the LLM call of abstractCluster yields: it throws, or answers without
\* content, without a {...} object, with an unparseable one, or with an
\* object whose confidence is absent (-1 stands for that) or a number in
\* hundredths.
LlmConfidences == {-1, 90, 100, 200}
LlmAnswers ==
    {[kind |-> k, confidence |-> -1] : k \in {"throw", "nocontent", "nomatch", "badjson"}}
    \cup {[kind |-> "json", confidence |-> c] : c \in LlmConfidences}

\* parsed.confidence || 0.5
semanticConfidence(answer) ==
    IF answer.confidence = -1 \/ answer.confidence = 0 THEN 50 ELSE answer.confidence

\* 100 * (statisticalConfidence * 0.6 + semanticConfidence * 0.4) as the
\* fraction num / den, from computeStatisticalConfidence
\* all events of the cluster's members, member after member
flatEvents(cluster) ==
    LET RECURSIVE upTo(_)
        upTo(k) == IF k = 0 THEN <<>> ELSE upTo(k - 1) \o cluster.members[k].events
    IN  upTo(Len(cluster.members))

combinedNum(cluster, sem) ==
    LET n == Len(cluster.members)
        uniquePatterns == Cardinality({labelsOf(cluster.members[k]) : k \in 1..n})
        all == flatEvents(cluster)
        RECURSIVE confSum(_)
        confSum(i) == IF i = 0 THEN 0 ELSE confSum(i - 1) + all[i].intentConfidence
        S == confSum(Len(all))
        C == Len(all)
    IN  IF n < MIN_CLUSTER_SIZE THEN 20 * sem * n * C
        ELSE 90 * Min(n, 10) * n * C + 1200 * C * (n - uniquePatterns + 1) + 9 * S * n
               + 20 * sem * n * C

combinedDen(cluster) == 50 * Len(cluster.members) * Len(flatEvents(cluster))

\* Math.round(combinedConfidence * 100), the confidence in hundredths
roundedConfidence(cluster, sem) ==
    (2 * combinedNum(cluster, sem) + combinedDen(cluster)) \div (2 * combinedDen(cluster))

memberTimestamps(cluster) == [k \in 1..Len(cluster.members) |-> cluster.members[k].timestamp]

\* abstractCluster after the LLM call: <<>> stands for null; members is a
\* history field, the timestamps of the cluster's members
abstractCluster(cluster, answer, uuid) ==
    IF answer.kind # "json" THEN <<>>
    ELSE <<[id |-> uuid,
            intentSequence |-> UNION {SeqRange(labelsOf(cluster.members[k])) :
                                         k \in 1..Len(cluster.members)},
            occurrences |-> Len(cluster.members),
            confidence |-> roundedConfidence(cluster, semanticConfidence(answer)),
            firstSeen |-> cluster.members[Len(cluster.members)].timestamp,
            lastSeen |-> cluster.members[1].timestamp,
            members |-> memberTimestamps(cluster)]>>

\* pattern.confidence >= AUTO_SUGGEST_THRESHOLD ? 'auto_suggested' : 'needs_review'
statusOfMutant(confidence) == IF confidence > AUTO_SUGGEST_THRESHOLD THEN "auto_suggested" ELSE "needs_review"

statusOf(confidence) == IF confidence >= AUTO_SUGGEST_THRESHOLD THEN "auto_suggested" ELSE "needs_review"

\* upsert on the primary key id; a row that fails
\* CHECK (confidence >= 0 AND confidence <= 1) is refused and the error is
\* not looked at
upsert(table, row) ==
    IF row.confidence < 0 \/ row.confidence > 100 THEN table
    ELSE {r \in table : r.id # row.id} \cup {row}

\* the row the handler writes for a pattern
patternRow(pattern) == [id |-> pattern.id, intentSequence |-> pattern.intentSequence, occurrences |-> pattern.occurrences, confidence |-> pattern.confidence, firstSeen |-> pattern.firstSeen, lastSeen |-> pattern.lastSeen, status |-> statusOf(pattern.confidence)]

\* The for-loop over validClusters.slice(0, 5): the patterns pushed and the
\* table after the first k clusters; uuid0 is the number of ids drawn before.
liftClustersMutant(clusters, answers, table, uuid0) ==
    LET RECURSIVE after(_)
        after(k) ==
            IF k = 0 THEN [patterns |-> <<>>, table |-> table, uuid |-> uuid0]
            ELSE LET prev == after(k - 1)
                     drawn == answers[k].kind = "json"
                     lifted == abstractCluster(clusters[k], answers[k], prev.uuid + 1)
                 IN  IF \E j \in 1..(k - 1) : answers[j].kind = "throw" THEN prev
                     ELSE IF lifted # <<>> /\ lifted[1].confidence >= REVIEW_THRESHOLD
                       THEN [patterns |-> Append(prev.patterns, lifted[1]),
                             table |-> upsert(prev.table, patternRow(lifted[1])),
                             uuid |-> prev.uuid + 1]
                       ELSE [prev EXCEPT !.uuid = IF drawn THEN @ + 1 ELSE @]
    IN  after(Min(Len(clusters), MaxClustersLifted))

liftClusters(clusters, answers, table, uuid0) ==
    LET RECURSIVE after(_)
        after(k) ==
            IF k = 0 THEN [patterns |-> <<>>, table |-> table, uuid |-> uuid0]
            ELSE LET prev == after(k - 1)
                     drawn == answers[k].kind = "json"
                     lifted == abstractCluster(clusters[k], answers[k], prev.uuid + 1)
                 IN  IF lifted # <<>> /\ lifted[1].confidence >= REVIEW_THRESHOLD
                       THEN [patterns |-> Append(prev.patterns, lifted[1]),
                             table |-> upsert(prev.table, patternRow(lifted[1])),
                             uuid |-> prev.uuid + 1]
                       ELSE [prev EXCEPT !.uuid = IF drawn THEN @ + 1 ELSE @]
    IN  after(Min(Len(clusters), MaxClustersLifted))

DetResponse(status, code, patterns) == [status |-> status, code |-> code, patterns |-> patterns]

NoSequences == [called |-> FALSE, sequences |-> <<>>]

DetInit ==
    /\ detEvents \in DetStores
    /\ detPatterns = {}
    /\ detResp = DetResponse(0, "", <<>>)
    /\ detHistory = <<>>
    /\ nextUuid = 0
    /\ detSequences = NoSequences

DetIdle ==
    /\ detEvents = <<>>
    /\ detPatterns = {}
    /\ detResp = DetResponse(0, "", <<>>)
    /\ detHistory = <<>>
    /\ nextUuid = 0
    /\ detSequences = NoSequences

\* A request without orgId, or whose fetch of secure_events errs.
DetRefuse(hasOrgId) ==
    /\ detResp' = IF hasOrgId THEN DetResponse(500, "INTERNAL_ERROR", <<>>)
                              ELSE DetResponse(400, "MISSING_ORG", <<>>)
    /\ detResp' # detResp
    /\ UNCHANGED <<detEvents, detPatterns, detHistory, nextUuid, detSequences, notDet>>

\* One invocation over the stored events; answers[k] is what the LLM yields
\* for the k-th valid cluster.
DetClusters(events) ==
    IF Len(events) < MIN_CLUSTER_SIZE THEN <<>>
    ELSE validClusters(clusterSequences(extractSequences(events, WINDOW_SIZE)))

DetServe(answers) ==
    /\ Len(detHistory) < MaxDetRuns
    /\ LET clusters == DetClusters(detEvents)
       IN  /\ DOMAIN answers = 1..Min(Len(clusters), MaxClustersLifted)
           /\ LET out == liftClusters(clusters, answers, detPatterns, nextUuid)
              IN  /\ detPatterns' = out.table
                  /\ nextUuid' = out.uuid
                  /\ detResp' = DetResponse(200, "", out.patterns)
                  /\ detHistory' = Append(detHistory,
                        [answers |-> answers, rows |-> Cardinality(out.table)])
    /\ UNCHANGED <<detEvents, detSequences, notDet>>

DetNext ==
    \/ \E hasOrgId \in BOOLEAN : DetRefuse(hasOrgId)
    \/ \E answers \in [1..Min(Len(DetClusters(detEvents)), MaxClustersLifted) -> LlmAnswers] :
          DetServe(answers)

ReportedPatterns == SeqRange(detResp.patterns)

\* C22: a second invocation over the same stored events, with the LLM
\* giving the same answers, leaves detected_patterns with as many rows as
\* the first invocation left.
C22_SecondRunAddsNoRow ==
    (Len(detHistory) = 2 /\ detHistory[1].answers = detHistory[2].answers)
        => detHistory[2].rows = detHistory[1].rows

\* C23: every pattern stored or reported has a confidence of at least 0.70
\* and at most 1, and a stored pattern is auto_suggested exactly when its
\* confidence is at least 0.85, needs_review otherwise.
C23_ConfidenceGated ==
    /\ \A p \in ReportedPatterns : p.confidence >= 70 /\ p.confidence <= 100
    /\ \A r \in detPatterns :
          /\ r.confidence >= 70 /\ r.confidence <= 100
          /\ r.status = IF r.confidence >= 85 THEN "auto_suggested" ELSE "needs_review"

\* C24: every pattern stored or reported has occurrences >= 3, the number
\* of member sequences of its cluster.
C24_AtLeastThreeOccurrences ==
    /\ \A p \in ReportedPatterns : p.occurrences >= 3 /\ p.occurrences = Len(p.members)
    /\ \A r \in detPatterns : r.occurrences >= 3

\* a run over three sessions reported and stored a pattern lifted from a
\* cluster of five member sequences
C24_Witness ==
    /\ detResp.status = 200
    /\ \E p \in ReportedPatterns :
          /\ p.occurrences = 5
          /\ \E r \in detPatterns : r.id = p.id /\ r.occurrences = 5
    /\ Cardinality({detEvents[i].sessionFingerprint : i \in 1..Len(detEvents)}) = 3

\* C25: for every reported pattern firstSeen is the least and lastSeen the
\* greatest timestamp of the cluster's member sequences, and no stored
\* pattern has firstSeen after lastSeen.
C25_FirstSeenIsMinLastSeenIsMax ==
    /\ \A p \in ReportedPatterns :
          /\ \A t \in SeqRange(p.members) : p.firstSeen <= t /\ t <= p.lastSeen
          /\ p.firstSeen <= p.lastSeen
    /\ \A r \in detPatterns : r.firstSeen <= r.lastSeen

(***************************************************************************)
(* EventTransmitter: enqueue, flush and sendBatch step by step             *)
(***************************************************************************)

\* C26: enqueue drops the event (totalDropped + 1, buffer untouched) exactly
\* when the events-this-minute counter is at 1000 or more; otherwise it leaves
\* totalDropped alone and appends the event at the end of the buffer, and when
\* the buffer has then reached maxBatchSize and no flush is running, a flush
\* starts with the first maxBatchSize events as its batch.
C26_EnqueueDropsOrAppends ==
    [][ /\ stats'.totalDropped # stats.totalDropped =>
              /\ eventsSentThisMinute >= EnqueueRateLimit
              /\ stats' = [stats EXCEPT !.totalDropped = @ + 1]
              /\ UNCHANGED <<buffer, nextId, isFlushing, txBatch, failedBatches>>
        /\ nextId' # nextId =>
              LET pushed == Append(buffer, nextId)
              IN  /\ eventsSentThisMinute < EnqueueRateLimit
                  /\ stats' = stats
                  /\ nextId' = nextId + 1
                  /\ IF Len(pushed) >= maxBatchSize /\ ~isFlushing
                       THEN /\ isFlushing'
                            /\ txBatch' = SubSeq(pushed, 1, maxBatchSize)
                            /\ buffer' = SubSeq(pushed, maxBatchSize + 1, Len(pushed))
                       ELSE /\ buffer' = pushed
                            /\ UNCHANGED <<isFlushing, txBatch>>
      ]_vars

\* an event was dropped with the counter at exactly 1000, after the event
\* before it was appended and sent at 999
C26_Witness ==
    /\ stats.totalDropped = 1
    /\ eventsSentThisMinute = EnqueueRateLimit
    /\ nextId = MaxEvents
    /\ MaxEvents - 1 \in acked

\* C27: at most one flush is in progress at any time; the flushing flag is set
\* exactly while one is, and is clear again once the flush has ended; the
\* batch a flush built from the buffer holds between 1 and maxBatchSize events.
C27_OneFlushAtATime ==
    /\ activeFlushes \in {0, 1}
    /\ isFlushing <=> activeFlushes = 1
    /\ isFlushing <=> txPc # "idle"
    /\ (txPc # "idle" /\ txPhase = "main") => Len(txBatch) \in 1..maxBatchSize

\* a flush is in progress, and the flush() that enqueue called when the buffer
\* reached maxBatchSize returned at once
C27_Witness ==
    /\ activeFlushes = 1
    /\ txPc = "persisting"
    /\ Len(buffer) = maxBatchSize

\* a fetch of the running sendBatch chain was answered in this step
Fetched == txPc = "sending" /\ txPosts' = txPosts + 1

\* C28: a fetch answered 5xx or with a network error while the retry count is
\* below maxRetries is followed by a wait of retryBaseMs * 2^retryCount and a
\* retry with the count raised by one; when the count is used up the batch goes
\* on the failed-batch queue. Hence a batch answered 5xx every time has been
\* POSTed exactly maxRetries + 1 times when it is queued, and a chain without
\* a 429 answer never makes more than maxRetries + 1 fetches.
C28_BackoffAndBudget ==
    [][ /\ (Fetched /\ txLast' \in {"500", "neterr"}) =>
              IF txRetry < maxRetries
                THEN /\ txPc' = "sending"
                     /\ txRetry' = txRetry + 1
                     /\ txWait'.ms = retryBaseMs * 2^txRetry
                     /\ UNCHANGED <<txBatch, failedBatches, stats>>
                ELSE /\ txPc' = "persisting"
                     /\ failedBatches' = Append(failedBatches, txBatch)
        /\ (Fetched /\ txPc' = "persisting" /\ txAll5xx') => txPosts' = maxRetries + 1
        /\ (Fetched /\ tx429' = 0) => txPosts' <= maxRetries + 1
      ]_vars

\* a batch answered 500 four times is on the failed queue, its last wait 4 s
C28_Witness ==
    /\ txPc = "persisting"
    /\ txAll5xx
    /\ txPosts = maxRetries + 1
    /\ txWait.ms = 4 * retryBaseMs
    /\ failedBatches # <<>>
    /\ failedBatches[Len(failedBatches)] = txBatch

\* C29: a fetch answered 429 leaves the retry count, the batch, the failed
\* queue, the durable store and the counters as they were, and is followed by
\* a wait of Retry-After seconds, 60 when the header is absent, before the
\* same batch is sent again; so a batch that ends on the failed queue through
\* 5xx answers or network errors has had maxRetries + 1 fetches besides those
\* answered 429.
C29_RateLimitedKeepsBudget ==
    [][ /\ (Fetched /\ txLast' = "429") =>
              /\ txPc' = "sending"
              /\ txWait'.ms = 1000 * (IF txWait'.retryAfter = -1 THEN 60 ELSE txWait'.retryAfter)
              /\ UNCHANGED <<txRetry, txBatch, txRetryList, failedBatches, storedFailed, stats,
                             eventsSentThisMinute, acked, buffer>>
        /\ (Fetched /\ txPc' = "persisting" /\ txLast' \in {"500", "neterr"}) =>
              txPosts' - tx429' = maxRetries + 1
      ]_vars

\* a batch answered 429 twice and 5xx or network error four times
C29_Witness ==
    /\ txPc = "persisting"
    /\ tx429 = Max429
    /\ txLast \in {"500", "neterr"}
    /\ txPosts = maxRetries + 1 + Max429

StoredEvents == UNION {Events(storedFailed[i]) : i \in 1..Len(storedFailed)}

\* C31: once shutdown() has returned, both timers are cancelled and every
\* event that enqueue accepted before shutdown was called is acknowledged by
\* the endpoint or is in a batch of the durable failed-batch store.
C31_ShutdownLeavesNothingBehind ==
    shutPc = "done" =>
        /\ ~flushTimer
        /\ ~rateLimitResetTimer
        /\ \A e \in 1..(shutNextId - 1) : e \in acked \/ e \in StoredEvents


\* the batches of a queue
Batches(queue) == {queue[i] : i \in 1..Len(queue)}

\* C37: when restoreFailedBatches receives the stored batches, every batch
\* that was on the in-memory failed queue is still on it afterwards, together
\* with every batch read from the store.
C37_RestoreKeepsQueue ==
    [][ (initPc = "getting" /\ initPc' # "getting") =>
            Batches(failedBatches) \cup Batches(storedFailed) \subseteq Batches(failedBatches')
      ]_vars


\* how many of the batches of a queue hold event e
HeldIn(queue, e) == Cardinality({i \in 1..Len(queue) : e \in Events(queue[i])})

\* the batch sendBatch is awaiting a fetch or a delay for, and the batches the
\* running retryFailedBatches pass has taken off the queue to send next
BeingSent == IF txPc = "sending" THEN <<txBatch>> \o txRetryList ELSE txRetryList

\* in how many places event e is: the buffer, a batch being sent, a batch on
\* the failed-batch queue, the acknowledged events
PlacesOf(e) == (IF e \in Events(buffer) THEN 1 ELSE 0) + HeldIn(BeingSent, e) + HeldIn(failedBatches, e) + (IF e \in acked THEN 1 ELSE 0)

\* C36: every event enqueue accepted is in exactly one place (buffer, a batch
\* being sent, a batch on the failed-batch queue, acknowledged), and totalSent
\* counts every acknowledged event once.
C36_EveryEventInOnePlace ==
    /\ \A e \in 1..(nextId - 1) : PlacesOf(e) = 1
    /\ stats.totalSent = Cardinality(acked)

(***************************************************************************)
(* PiiScrubber.scrub call by call, on the shared counter table             *)
(***************************************************************************)
\* bounds of the scrub model
MaxScrubCalls == 2
MaxTextLen == 3

\* the segments a text is made of
ScrubSegments == {"a@b.co", "A@B.co", "c@d.io", "token=abc", "hi"}

ScrubTexts == UNION {[1..n -> ScrubSegments] : n \in 1..MaxTextLen}

ScrubInit ==
    /\ scrubIn = <<>>
    /\ scrubOut = <<>>
    /\ firstSeen = NoCounters
    /\ scrubCalls = 0

ScrubIdle == ScrubInit

\* the first-seen order after the matches of text from position i on are
\* added left to right
RECURSIVE seenAfter(_, _, _)
seenAfter(text, i, seen) ==
    IF i > Len(text) THEN seen
    ELSE IF PiiType(text[i]) = "" \/ IndexOf(seen[PiiType(text[i])], normalizedValue(text[i])) # 0
      THEN seenAfter(text, i + 1, seen)
    ELSE seenAfter(text, i + 1, [seen EXCEPT ![PiiType(text[i])] = Append(@, normalizedValue(text[i]))])

\* scrubber.scrub(text), by any PiiScrubber instance
ScrubCall(text) ==
    /\ scrubCalls < MaxScrubCalls
    /\ scrubCalls' = scrubCalls + 1
    /\ scrubIn' = text
    /\ scrubOut' = scrub(text, entityCounters).text
    /\ entityCounters' = scrub(text, entityCounters).counters
    /\ firstSeen' = seenAfter(text, 1, firstSeen)
    /\ UNCHANGED <<encA, encB, encOutA, encOutB, encPc, notScrub>>

\* PiiScrubber.resetCounters()
ScrubResetCounters ==
    /\ entityCounters # NoCounters
    /\ entityCounters' = NoCounters
    /\ firstSeen' = NoCounters
    /\ scrubIn' = <<>>
    /\ scrubOut' = <<>>
    /\ UNCHANGED <<scrubCalls, encA, encB, encOutA, encOutB, encPc, notScrub>>

ScrubNext ==
    \/ \E text \in ScrubTexts : ScrubCall(text)
    \/ ScrubResetCounters

\* C32: every match in the text of a scrub call is replaced by [TYPE_N] with N
\* the rank of its normalized value among the values of its type in
\* first-seen order since the last reset (calls in order, matches left to
\* right within a text); so equal normalized values get equal tokens,
\* different ones different N, and the numbering restarts at 1 after a reset.
C32_TokensInFirstSeenOrder ==
    /\ Len(scrubOut) = Len(scrubIn)
    /\ \A i \in 1..Len(scrubIn) :
          IF PiiType(scrubIn[i]) = ""
            THEN scrubOut[i] = scrubIn[i]
            ELSE scrubOut[i] = "[" \o PiiType(scrubIn[i]) \o "_"
                    \o ToString(IndexOf(firstSeen[PiiType(scrubIn[i])], normalizedValue(scrubIn[i])))
                    \o "]"

(***************************************************************************)
(* extractSequences over fetched sessions of any length and order          *)
(***************************************************************************)
\* lengths of the two fetched sessions; the long ones straddle WINDOW_SIZE
LongLengths == {0, 1, 2, 3, 4, 5, 49, 50, 51, 52}
ShortLengths == {0, 1, 2, 3, 4}

\* session s with n events, sequence numbers 1..n, one bucket per event
plainSession(s, n) == [i \in 1..n |-> SecureEvent(s, i, i, "navigation", 70, <<1, 0>>)]

\* the odd positions of q followed by the even ones
Shuffled(q) == [i \in 1..Len(q) |-> IF i <= (Len(q) + 1) \div 2 THEN q[2 * i - 1] ELSE q[2 * (i - (Len(q) + 1) \div 2)]]

\* the rows of two sessions as the fetch returns them: newest first, oldest
\* first, or mixed
FetchedStores ==
    UNION {{Reverse(plainSession("s1", a) \o plainSession("s2", b)),
            plainSession("s1", a) \o plainSession("s2", b),
            Shuffled(plainSession("s1", a) \o plainSession("s2", b))} :
              a \in LongLengths, b \in ShortLengths}

SeqInit ==
    /\ detEvents \in FetchedStores
    /\ detPatterns = {}
    /\ detResp = DetResponse(0, "", <<>>)
    /\ detHistory = <<>>
    /\ nextUuid = 0
    /\ detSequences = NoSequences

\* const sequences = extractSequences(events, WINDOW_SIZE)
SeqExtract ==
    /\ ~detSequences.called
    /\ detSequences' = [called |-> TRUE, sequences |-> extractSequences(detEvents, WINDOW_SIZE)]
    /\ UNCHANGED <<detEvents, detPatterns, detResp, detHistory, nextUuid, notDet>>

SeqNext == SeqExtract

\* the fetched events of session s
FetchedOf(s) == {detEvents[i] : i \in {j \in 1..Len(detEvents) : detEvents[j].sessionFingerprint = s}}

\* the windows emitted for session s
WindowsOfSession(s) == {k \in 1..Len(detSequences.sequences) : detSequences.sequences[k].events[1].sessionFingerprint = s}

\* C33: every window extractSequences emits holds events of one session in
\* ascending sequenceNumber order and has between 3 and WINDOW_SIZE events;
\* a session with L >= 3 fetched events yields exactly one window per start
\* index 0..L-3 (the events from that rank on, at most WINDOW_SIZE of them),
\* a session with fewer than 3 none; whatever the order of the fetched rows.
C33_WindowsPerSession ==
    detSequences.called =>
        /\ \A k \in 1..Len(detSequences.sequences) :
              LET w == detSequences.sequences[k].events
              IN  /\ Len(w) >= 3 /\ Len(w) <= 50
                  /\ \A i \in 1..Len(w) : w[i].sessionFingerprint = w[1].sessionFingerprint
                  /\ \A i \in 1..(Len(w) - 1) : w[i].sequenceNumber < w[i + 1].sequenceNumber
        /\ \A s \in {"s1", "s2"} :
              LET L == Cardinality(FetchedOf(s))
              IN  IF L < 3 THEN WindowsOfSession(s) = {}
                  ELSE /\ Cardinality(WindowsOfSession(s)) = L - 2
                       /\ \A start \in 0..(L - 3) :
                            \E k \in WindowsOfSession(s) :
                                LET w == detSequences.sequences[k].events
                                IN  /\ w[1].sequenceNumber = start + 1
                                    /\ Len(w) = (IF L - start < 50 THEN L - start ELSE 50)
                                    /\ \A i \in 1..Len(w) : w[i].sequenceNumber = start + i

\* a session of 52 events fetched out of order next to a second session, cut
\* into 50 windows of which the first three are full
C33_Witness ==
    /\ detSequences.called
    /\ Cardinality(FetchedOf("s1")) = 52
    /\ Cardinality(FetchedOf("s2")) = 4
    /\ detEvents[2].sessionFingerprint = "s1"
    /\ detEvents[2].sequenceNumber = 3
    /\ Cardinality({k \in WindowsOfSession("s1") : Len(detSequences.sequences[k].events) = 50}) = 3

(***************************************************************************)
(* pattern-detector: one invocation over several valid clusters            *)
(***************************************************************************)
\* sessions long enough for a cluster of 9 windows, which an in-range LLM
\* confidence lifts over REVIEW_THRESHOLD
WideSessionLen == 11

wideSession(session, label, start) == sessionEvents(session, SessionShape(label, WideSessionLen, start, 0))

\* stores of 0, 1 and 2 events, and stores whose events form 2 and 6 valid
\* clusters
WideStores ==
    {<<>>,
     Reverse(sessionEvents("s1", SessionShape("navigation", 1, 0, 0))),
     Reverse(sessionEvents("s1", SessionShape("navigation", 2, 0, 0))),
     Reverse(wideSession("s1", "navigation", 0) \o wideSession("s2", "data_entry", 0)),
     Reverse(wideSession("s1", "navigation", 0) \o wideSession("s2", "data_entry", 0)
             \o wideSession("s3", "navigation", 45) \o wideSession("s4", "data_entry", 45)
             \o wideSession("s5", "navigation", 90) \o wideSession("s6", "data_entry", 90))}

\* the LLM throws, answers with an unparseable object, or with confidence 0.9
WideAnswers == {a \in LlmAnswers : a.kind \in {"throw", "badjson"} \/ a.confidence = 90}

WideInit ==
    /\ detEvents \in WideStores
    /\ detPatterns = {}
    /\ detResp = DetResponse(0, "", <<>>)
    /\ detHistory = <<>>
    /\ nextUuid = 0
    /\ detSequences = NoSequences

WideNext ==
    \/ \E hasOrgId \in BOOLEAN : DetRefuse(hasOrgId)
    \/ \E answers \in [1..Min(Len(DetClusters(detEvents)), MaxClustersLifted) -> WideAnswers] :
          detHistory = <<>> /\ DetServe(answers)

\* the clusters of the latest invocation whose answer parses and whose
\* combined confidence passes the 0.70 gate and the column's [0, 1] check
Liftable(clusters, answers) ==
    {k \in DOMAIN answers :
        /\ answers[k].kind = "json"
        /\ roundedConfidence(clusters[k], semanticConfidence(answers[k])) >= 70
        /\ roundedConfidence(clusters[k], semanticConfidence(answers[k])) <= 100}

\* pattern p was lifted from cluster c
LiftedFrom(p, c) ==
    /\ p.members = memberTimestamps(c)
    /\ p.occurrences = Len(c.members)
    /\ p.intentSequence = UNION {SeqRange(labelsOf(c.members[k])) : k \in 1..Len(c.members)}

\* C34: an invocation answers 200; a cluster whose LLM call throws or whose
\* answer does not parse yields no pattern, and every other of the first 5
\* valid clusters (with an acceptable confidence) is reported and gets a new
\* detected_patterns row; with fewer than 3 stored events the LLM is not
\* called and the pattern list is empty.
C34_FailureSkipsOnlyItsCluster ==
    [][Len(detHistory') > Len(detHistory) =>
        LET answers == detHistory'[Len(detHistory')].answers
            clusters == DetClusters(detEvents)
            reported == detResp'.patterns
        IN  /\ detResp'.status = 200
            /\ Len(detEvents) < 3 => (answers = <<>> /\ reported = <<>> /\ detPatterns' = detPatterns)
            /\ Len(reported) = Cardinality({k \in DOMAIN answers : answers[k].kind = "json" /\ roundedConfidence(clusters[k], semanticConfidence(answers[k])) >= 70})
            /\ \A k \in DOMAIN answers :
                  answers[k].kind # "json" =>
                      ~\E i \in 1..Len(reported) : LiftedFrom(reported[i], clusters[k])
            /\ \A k \in Liftable(clusters, answers) :
                  \E i \in 1..Len(reported) :
                      /\ LiftedFrom(reported[i], clusters[k])
                      /\ \E r \in detPatterns' \ detPatterns : r.id = reported[i].id /\ r.occurrences = reported[i].occurrences]_vars

\* of six valid clusters the second threw and the fourth did not parse; the
\* first, third and fifth are stored, the sixth was never tried
C34_Witness ==
    /\ Len(detHistory) = 1
    /\ Len(DetClusters(detEvents)) = 6
    /\ detHistory[1].answers[2].kind = "throw"
    /\ detHistory[1].answers[4].kind = "badjson"
    /\ detResp.status = 200
    /\ Len(detResp.patterns) = 3
    /\ Cardinality(detPatterns) = 3

(***************************************************************************)
(* desktop EventTransmitter                                                *)
(***************************************************************************)
\* bounds of the desktop transmitter model
MaxDeskEvents == 12
MaxDeskFlights == 2
MaxDeskFailures == 2

\* if (this.buffer.length >= 10)
deskFlushAt == 10

DeskInit ==
    /\ deskBuffer = <<>>
    /\ deskFlights = {}
    /\ deskDelivered = {}
    /\ deskNextId = 1
    /\ flushInterval = TRUE
    /\ deskFailures = 0

DeskIdle ==
    /\ deskBuffer = <<>>
    /\ deskFlights = {}
    /\ deskDelivered = {}
    /\ deskNextId = 1
    /\ flushInterval = FALSE
    /\ deskFailures = 0

\* flush() up to its await: the buffer is copied into the batch and emptied
flushTakes(buf, flights) ==
    IF Len(buf) = 0 THEN [buffer |-> buf, flights |-> flights]
    ELSE [buffer |-> <<>>, flights |-> flights \cup {buf}]

\* this.buffer.unshift(...batch)
unshift(buf, batch) == batch \o buf

\* send(event): push, and flush when the buffer holds 10 events or more
DeskSend ==
    /\ deskNextId <= MaxDeskEvents
    /\ LET pushed == Append(deskBuffer, deskNextId)
       IN  IF Len(pushed) >= deskFlushAt
             THEN /\ Cardinality(deskFlights) < MaxDeskFlights
                  /\ deskBuffer' = flushTakes(pushed, deskFlights).buffer
                  /\ deskFlights' = flushTakes(pushed, deskFlights).flights
             ELSE /\ deskBuffer' = pushed
                  /\ UNCHANGED deskFlights
    /\ deskNextId' = deskNextId + 1
    /\ UNCHANGED <<deskDelivered, flushInterval, deskFailures, notDesk>>

\* setInterval(() => this.flush(), 5000)
DeskTimerFlush ==
    /\ flushInterval
    /\ Len(deskBuffer) > 0
    /\ Cardinality(deskFlights) < MaxDeskFlights
    /\ deskBuffer' = flushTakes(deskBuffer, deskFlights).buffer
    /\ deskFlights' = flushTakes(deskBuffer, deskFlights).flights
    /\ UNCHANGED <<deskDelivered, deskNextId, flushInterval, deskFailures, notDesk>>

\* supabase.functions.invoke resolves for the flush that holds batch
DeskInvokeResolves(batch) ==
    /\ batch \in deskFlights
    /\ deskFlights' = deskFlights \ {batch}
    /\ deskDelivered' = deskDelivered \cup {batch[i] : i \in 1..Len(batch)}
    /\ UNCHANGED <<deskBuffer, deskNextId, flushInterval, deskFailures, notDesk>>

\* supabase.functions.invoke throws for the flush that holds batch
DeskInvokeThrows(batch) ==
    /\ batch \in deskFlights
    /\ deskFlights' = deskFlights \ {batch}
    /\ deskFailures < MaxDeskFailures
    /\ deskBuffer' = unshift(deskBuffer, batch)
    /\ deskFailures' = deskFailures + 1
    /\ UNCHANGED <<deskDelivered, deskNextId, flushInterval, notDesk>>

\* destroy(): clearInterval and a final flush that is not awaited
DeskDestroy ==
    /\ flushInterval
    /\ Cardinality(deskFlights) < MaxDeskFlights
    /\ flushInterval' = FALSE
    /\ deskBuffer' = flushTakes(deskBuffer, deskFlights).buffer
    /\ deskFlights' = flushTakes(deskBuffer, deskFlights).flights
    /\ UNCHANGED <<deskDelivered, deskNextId, deskFailures, notDesk>>

DeskNext ==
    \/ DeskSend
    \/ DeskTimerFlush
    \/ \E batch \in deskFlights : DeskInvokeResolves(batch)
    \/ \E batch \in deskFlights : DeskInvokeThrows(batch)
    \/ DeskDestroy

\* where event e is: in the buffer, in a batch in flight, delivered
DeskPlacesOf(e) ==
    Cardinality({i \in 1..Len(deskBuffer) : deskBuffer[i] = e})
    + Cardinality({<<b, i>> \in UNION {{<<b, i>> : i \in 1..Len(b)} : b \in deskFlights} : b[i] = e})
    + (IF e \in deskDelivered THEN 1 ELSE 0)

\* C38: whatever flushes failed, and in whatever order two flushes in
\* flight failed, the buffer holds its events in the order in which send()
\* received them, and every event send() received is in exactly one place.
C38_PutBackKeepsSendOrder ==
    /\ \A i \in 1..(Len(deskBuffer) - 1) : deskBuffer[i] < deskBuffer[i + 1]
    /\ \A e \in 1..(deskNextId - 1) : DeskPlacesOf(e) = 1

(***************************************************************************)
(* Specifications: one per subsystem, the others idle                      *)
(***************************************************************************)
InitSpecIngest == IngestInit /\ ExecIdle /\ ApproveIdle /\ TxIdle /\ SwIdle /\ RlsIdle /\ EncIdle /\ DashIdle /\ DetIdle /\ ScrubIdle /\ DeskIdle
SpecIngest == InitSpecIngest /\ [][IngestNext]_vars

InitSpecExec == IngestIdle /\ ExecInit /\ ApproveIdle /\ TxIdle /\ SwIdle /\ RlsIdle /\ EncIdle /\ DashIdle /\ DetIdle /\ ScrubIdle /\ DeskIdle
SpecExec == InitSpecExec /\ [][ExecNext]_vars

\* the handler runs on after every await
SpecExecLive ==
    /\ InitSpecExec
    /\ [][ExecNext]_vars
    /\ WF_vars(ExecPlanning)
    /\ WF_vars(ExecRunNode)
    /\ WF_vars(ExecFinish)

InitSpecApprove == IngestIdle /\ ExecIdle /\ ApproveInit /\ TxIdle /\ SwIdle /\ RlsIdle /\ EncIdle /\ DashIdle /\ DetIdle /\ ScrubIdle /\ DeskIdle
SpecApprove == InitSpecApprove /\ [][ApproveNext]_vars

\* approve-ghost requests and clicks on the dashboard's Ghosts page interleave
InitSpecGovern ==
    IngestIdle /\ ExecIdle /\ ApproveInit /\ TxIdle /\ SwIdle /\ RlsIdle /\ EncIdle /\ DashInit
    /\ DetIdle /\ ScrubIdle /\ DeskIdle
SpecGovern == InitSpecGovern /\ [][GovernNext]_vars

InitSpecTx == IngestIdle /\ ExecIdle /\ ApproveIdle /\ TxInit /\ SwIdle /\ RlsIdle /\ EncIdle /\ DashIdle /\ DetIdle /\ ScrubIdle /\ DeskIdle
SpecTx == InitSpecTx /\ [][TxNext]_vars

\* The flush timer keeps firing, every fetch is answered, and the endpoint
\* eventually accepts every batch.
SpecTxLive ==
    /\ InitSpecTx
    /\ [][TxLiveNext]_vars
    /\ WF_vars(TxTimerFlush)
    /\ WF_vars(TxSend)
    /\ WF_vars(TxPersisted)
    /\ WF_vars(TxEndpointRecovers)

\* The transmitter started from TxLateInit, with its endpoint configured.
InitSpecTxLate == IngestIdle /\ ExecIdle /\ ApproveIdle /\ TxLateInit /\ SwIdle /\ RlsIdle /\ EncIdle /\ DashIdle /\ DetIdle /\ ScrubIdle /\ DeskIdle
SpecTxLate == InitSpecTxLate /\ [][TxLateNext]_vars

SpecTxShut == InitSpecTx /\ [][TxShutNext]_vars

\* The transmitter from its construction in the service worker's initialize().
InitSpecTxStart == IngestIdle /\ ExecIdle /\ ApproveIdle /\ TxStartInit /\ SwIdle /\ RlsIdle /\ EncIdle /\ DashIdle /\ DetIdle /\ ScrubIdle /\ DeskIdle
SpecTxStart == InitSpecTxStart /\ [][TxStartNext]_vars

InitSpecSw == IngestIdle /\ ExecIdle /\ ApproveIdle /\ TxIdle /\ SwInit /\ RlsIdle /\ EncIdle /\ DashIdle /\ DetIdle /\ ScrubIdle /\ DeskIdle
SpecSw == InitSpecSw /\ [][SwNext]_vars

InitSpecRls == IngestIdle /\ ExecIdle /\ ApproveIdle /\ TxIdle /\ SwIdle /\ RlsInit /\ EncIdle /\ DashIdle /\ DetIdle /\ ScrubIdle /\ DeskIdle
SpecRls == InitSpecRls /\ [][RlsNext]_vars

InitSpecEnc == IngestIdle /\ ExecIdle /\ ApproveIdle /\ TxIdle /\ SwIdle /\ RlsIdle /\ EncInit /\ DashIdle /\ DetIdle /\ ScrubIdle /\ DeskIdle
SpecEnc == InitSpecEnc /\ [][EncNext]_vars

InitSpecScrub == IngestIdle /\ ExecIdle /\ ApproveIdle /\ TxIdle /\ SwIdle /\ RlsIdle /\ EncIdle /\ DashIdle /\ DetIdle /\ ScrubInit /\ DeskIdle
SpecScrub == InitSpecScrub /\ [][ScrubNext]_vars

\* extractSequences applied to fetched rows of two sessions
InitSpecSeq == IngestIdle /\ ExecIdle /\ ApproveIdle /\ TxIdle /\ SwIdle /\ RlsIdle /\ EncIdle /\ DashIdle /\ SeqInit /\ ScrubIdle /\ DeskIdle
SpecSeq == InitSpecSeq /\ [][SeqNext]_vars

\* one pattern-detector invocation over stores with several valid clusters
InitSpecWide == IngestIdle /\ ExecIdle /\ ApproveIdle /\ TxIdle /\ SwIdle /\ RlsIdle /\ EncIdle /\ DashIdle /\ WideInit /\ ScrubIdle /\ DeskIdle
SpecWide == InitSpecWide /\ [][WideNext]_vars

InitSpecDesk == IngestIdle /\ ExecIdle /\ ApproveIdle /\ TxIdle /\ SwIdle /\ RlsIdle /\ EncIdle /\ DashIdle /\ DetIdle /\ ScrubIdle /\ DeskInit
SpecDesk == InitSpecDesk /\ [][DeskNext]_vars

InitSpecDet == IngestIdle /\ ExecIdle /\ ApproveIdle /\ TxIdle /\ SwIdle /\ RlsIdle /\ EncIdle /\ DashIdle /\ DetInit /\ ScrubIdle /\ DeskIdle
SpecDet == InitSpecDet /\ [][DetNext]_vars

====
